---- MODULE Spec2Model ----
(***************************************************************************)
(* Raven backend: a model of the relational state behind the REST views    *)
(* (users/, campaigns/) and of the request handlers that change it.        *)
(* Every table is a set of rows; a row is a record whose id is the primary *)
(* key.  One action is one HTTP request (or one model-method call) handled *)
(* to completion; resp holds the response of the last request.             *)
(***************************************************************************)
EXTENDS Integers, Sequences, FiniteSets, TLC

VARIABLES
    startups,     \* users.Startup rows
    assoc,        \* Startup.incubators (many-to-many): pairs <<startup id, incubator id>>
    incubators,   \* users.Incubator rows
    members,      \* users.IncubatorMember rows
    evidences,    \* users.Evidence rows
    rlevels,      \* users.ReadinessLevel rows
    finputs,      \* users.FinancialInput rows
    pipeline,     \* users.InvestorPipeline rows
    fundrounds,   \* users.Round rows
    challenges,   \* users.Challenge rows
    campaigns,    \* campaigns.Campaign rows
    cfins,        \* campaigns.CampaignFinancials rows
    rounds,       \* campaigns.InvestmentRound rows
    investors,    \* campaigns.Investor rows
    nextId,       \* per table, the next primary key the database hands out
    txns,         \* per connection, the onboarding wizard request it is serving
    resp          \* the response to the last request

userVars  == <<startups, assoc, incubators, members>>
readyVars == <<evidences, rlevels>>
onbVars   == <<finputs, pipeline, fundrounds, challenges, txns>>
campVars  == <<campaigns, cfins, rounds, investors>>
vars == <<startups, assoc, incubators, members, evidences, rlevels, finputs,
          pipeline, fundrounds, challenges, campaigns, cfins, rounds, investors, nextId,
          txns, resp>>

(***************************************************************************)
(* Bounds of the model.                                                    *)
(***************************************************************************)
MaxId == 3          \* primary keys handed out per table
MaxSeed == 1        \* evidence rows present before the onboarding wizard runs
MaxEvidence == 2    \* evidence rows submitted for review
MaxList == 2        \* length of a list submitted in one request
MaxRounds == 2       \* investment rounds created
MaxCampaigns == 2    \* campaigns created
MaxMembers == 2      \* incubator members created
MaxLevels == 1       \* readiness level rows created
MaxChallenges == 2   \* challenges created

(***************************************************************************)
(* Users and profiles.  Registration is outside the model: the accounts    *)
(* and their profile types are fixed.  "anon" is an authenticated user     *)
(* that has no Profile row.                                                *)
(***************************************************************************)
STARTUP == "startup"
INCUBATOR == "incubator"
StartupUsers == {"s1", "s2"}
IncubatorUsers == {"i1", "i2"}
Users == StartupUsers \cup IncubatorUsers \cup {"anon"}
HasProfile(u) == u # "anon"
UserType(u) == IF u \in IncubatorUsers THEN INCUBATOR ELSE STARTUP

NullStr == "<null>"
NoRow == [id |-> 0]
Tables == {"startup", "incubator", "member", "evidence", "rlevel", "finput",
           "pipeline", "fundround", "challenge", "campaign", "cfin", "round",
           "investor"}

\* The connections that serve the onboarding wizard at the same time, and
\* the state of one that serves no request.  A connection in a transaction
\* holds its uncommitted writes: the rows it deleted and the rows it inserted.
Connections == {1, 2}
NoWrites == [evidences |-> {}, finputs |-> {}, pipeline |-> {}]
Idle == [pc |-> <<"idle">>, user |-> "anon", startup |-> 0, data |-> <<>>,
         deleted |-> NoWrites, created |-> NoWrites, overlapped |-> FALSE,
         status |-> 0]

\* HTTP statuses
HTTP_200 == 200
HTTP_201 == 201
HTTP_204 == 204
HTTP_400 == 400
HTTP_403 == 403
HTTP_404 == 404
HTTP_500 == 500

PENDING == "PENDING"
APPROVED == "APPROVED"
REJECTED == "REJECTED"
TRL == "TRL"
CRL == "CRL"
MinLevel == 1
MaxLevel == 9
DRAFT == "DRAFT"
SUBMITTED == "SUBMITTED"
CONTACTED == "CONTACTED"
COMMITTED == "COMMITTED"
OPEN == "OPEN"
CONCLUDED == "CONCLUDED"

Range(f) == {f[i] : i \in DOMAIN f}
SeqsUpTo(S, n) == UNION {[1..k -> S] : k \in 0..n}

(***************************************************************************)
(* Row lookups (the ORM's related-object accessors).                       *)
(***************************************************************************)
StartupsOfProfile(tbl, u) == {s \in tbl : s.profile = u}
HasStartup(u) == HasProfile(u) /\ StartupsOfProfile(startups, u) # {}
\* request.user.profile.startup
StartupOf(u) == CHOOSE s \in StartupsOfProfile(startups, u) : TRUE
IncubatorsOfProfile(tbl, u) == {i \in tbl : i.profile = u}
HasIncubator(u) == HasProfile(u) /\ IncubatorsOfProfile(incubators, u) # {}
\* request.user.profile.incubator
IncubatorOf(u) == CHOOSE i \in IncubatorsOfProfile(incubators, u) : TRUE
\* incubator.startups.all(): the ids of the startups associated with incubator iid
PortfolioIds(iid) == {p[1] : p \in {q \in assoc : q[2] = iid}}

(***************************************************************************)
(* The database and its constraints.                                       *)
(***************************************************************************)
\* The tables a request may touch, as one value: a transaction works on a
\* copy and the copy replaces the database only on commit.
Database == [startups |-> startups, assoc |-> assoc, incubators |-> incubators,
             members |-> members, evidences |-> evidences, rlevels |-> rlevels,
             finputs |-> finputs, pipeline |-> pipeline, fundrounds |-> fundrounds,
             challenges |-> challenges, campaigns |-> campaigns,
             cfins |-> cfins, rounds |-> rounds, investors |-> investors,
             nextId |-> nextId]

\* The tables become those of db.
PersistTables(db) ==
    /\ startups' = db.startups
    /\ assoc' = db.assoc
    /\ incubators' = db.incubators
    /\ members' = db.members
    /\ evidences' = db.evidences
    /\ rlevels' = db.rlevels
    /\ finputs' = db.finputs
    /\ pipeline' = db.pipeline
    /\ fundrounds' = db.fundrounds
    /\ challenges' = db.challenges
    /\ campaigns' = db.campaigns
    /\ cfins' = db.cfins
    /\ rounds' = db.rounds
    /\ investors' = db.investors
    /\ nextId' = db.nextId

\* The request leaves the database as db.
Persist(db) == PersistTables(db) /\ txns' = txns

\* The outcome of a block of ORM calls: the database it produced, whether it
\* ran to its end, where it raised, and what it returned.
Raised(db, where) == [ok |-> FALSE, db |-> db, failed_at |-> where, row |-> NoRow]
Done(db, row) == [ok |-> TRUE, db |-> db, failed_at |-> "none", row |-> row]

\* Mutant of OneToOneFree: the column is a plain ForeignKey, not unique.
ForeignKeyFree(tbl, field, value) == TRUE

\* A OneToOneField is a unique column: inserting a second row with the same
\* value raises IntegrityError.
OneToOneFree(tbl, field, value) == \A r \in tbl : r[field] # value

\* Fields of core.models.BaseModel, the abstract base of every model.
BaseModelFields == {"id", "created", "updated"}

\* The concrete non-pk fields of users.Startup.
StartupFields ==
    {"profile", "company_name", "industry", "logo_url", "onboarding_completed",
     "TRL_level", "CRL_level"} \cup (BaseModelFields \ {"id"})

\* Model.save(update_fields=...) raises ValueError when a name is not a
\* concrete field of the model.
UpdateFieldsOk(update_fields, model_fields) == update_fields \subseteq model_fields

NewStartup(id, u) ==
    [id |-> id, profile |-> u, company_name |-> NullStr, industry |-> NullStr,
     onboarding_completed |-> FALSE, TRL_level |-> 1, CRL_level |-> 1]

\* Startup.objects.get_or_create(profile=profile)
StartupGetOrCreate(db, u) ==
    IF StartupsOfProfile(db.startups, u) # {}
    THEN Done(db, CHOOSE s \in StartupsOfProfile(db.startups, u) : TRUE)
    ELSE LET s == NewStartup(db.nextId["startup"], u)
         IN  Done([db EXCEPT !.startups = @ \cup {s},
                             !.nextId["startup"] = @ + 1], s)

NewCampaign(id, sid) == [id |-> id, startup |-> sid, status |-> DRAFT, problem |-> NullStr]

\* Campaign.objects.create(startup=startup): Campaign.startup is a OneToOneField
CampaignCreate(db, sid) ==
    IF ~OneToOneFree(db.campaigns, "startup", sid)
    THEN Raised(db, "IntegrityError")
    ELSE LET c == NewCampaign(db.nextId["campaign"], sid)
         IN  Done([db EXCEPT !.campaigns = @ \cup {c},
                             !.nextId["campaign"] = @ + 1], c)

\* Campaign.objects.get_or_create(startup=startup, defaults={'status': DRAFT})
CampaignGetOrCreate(db, sid) ==
    IF \E c \in db.campaigns : c.startup = sid
    THEN Done(db, CHOOSE c \in db.campaigns : c.startup = sid)
    ELSE CampaignCreate(db, sid)

NewFinancials(id, cid) == [id |-> id, campaign |-> cid, financial_projections |-> "{}"]

\* CampaignFinancials.objects.get_or_create(campaign=campaign)
FinancialsGetOrCreate(db, cid) ==
    IF \E f \in db.cfins : f.campaign = cid
    THEN Done(db, CHOOSE f \in db.cfins : f.campaign = cid)
    ELSE IF ~OneToOneFree(db.cfins, "campaign", cid)
    THEN Raised(db, "IntegrityError")
    ELSE LET f == NewFinancials(db.nextId["cfin"], cid)
         IN  Done([db EXCEPT !.cfins = @ \cup {f}, !.nextId["cfin"] = @ + 1], f)

\* Mutant of Atomic: no transaction, the writes made before the exception stay.
AtomicNoRollback(before, result) == result

\* transaction.atomic: a block that raised leaves the database as it was
\* when the block was entered.
Atomic(before, result) ==
    IF result.ok THEN result ELSE [result EXCEPT !.db = before]

(***************************************************************************)
(* Request inputs.                                                         *)
(***************************************************************************)
Dates == {"2024-01-31", "2024-02-29"}
InvestorNames == {"Angel"}
CompanyNames == {"Acme"}
Industries == {"fintech"}
EvidenceInputs ==
    {[type |-> TRL, level |-> 1], [type |-> TRL, level |-> 2],
     [type |-> CRL, level |-> 1]}
\* An optional integer is a sequence of length 0 or 1.
BasePayload ==
    [company_name |-> "Acme", industry |-> "fintech",
     current_trl |-> 1, current_crl |-> <<>>,
     evidences |-> <<[type |-> TRL, level |-> 1]>>,
     financial_data |-> <<"2024-01-31">>,
     financial_projections |-> "q1",
     investors |-> <<"Angel">>]
\* The wizard's form: one family of payloads per step of the form, the
\* other steps filled in validly.
WizardPayloads ==
    {[BasePayload EXCEPT !.company_name = n] : n \in CompanyNames \cup {""}}
    \cup {[BasePayload EXCEPT !.current_trl = t, !.evidences = e]
          : t \in {1, 2}, e \in SeqsUpTo(EvidenceInputs, MaxList)}
    \cup {[BasePayload EXCEPT !.current_crl = <<1>>, !.evidences = e]
          : e \in {<<[type |-> TRL, level |-> 1]>>,
                   <<[type |-> TRL, level |-> 1], [type |-> CRL, level |-> 1]>>}}
    \cup {[BasePayload EXCEPT !.financial_data = f, !.investors = i]
          : f \in SeqsUpTo(Dates, MaxList), i \in {<<>>} \cup {<<n>> : n \in InvestorNames}}
\* Steps of OnboardingWizardSerializer.create at which the database may fail.
DatabaseFaults == {"none", "delete", "create", "startup", "financials"}

(***************************************************************************)
(* users/serializers/onboarding.py                                         *)
(***************************************************************************)
validate_type(value) == value \in {TRL, CRL}
validate_level(value) == ~(value < MinLevel \/ value > MaxLevel)

\* Mutant of validate_financial_data: the duplicate-period check is left out.
validate_financial_data_nonempty(value) == Len(value) # 0

validate_financial_data(value) ==
    /\ Len(value) # 0
    /\ Len(value) = Cardinality(Range(value))

validate_investors(value) == Len(value) # 0

\* The declared fields of OnboardingWizardSerializer and their validators.
WizardFieldsValid(data) ==
    /\ data.company_name # ""
    /\ data.industry # ""
    /\ data.current_trl >= MinLevel /\ data.current_trl <= MaxLevel
    /\ \A i \in DOMAIN data.current_crl :
           data.current_crl[i] >= MinLevel /\ data.current_crl[i] <= MaxLevel
    /\ \A i \in DOMAIN data.evidences :
           validate_type(data.evidences[i].type) /\ validate_level(data.evidences[i].level)
    /\ validate_financial_data(data.financial_data)
    /\ validate_investors(data.investors)

\* OnboardingWizardSerializer.validate
validate(data) ==
    LET trl_evidences == {i \in DOMAIN data.evidences : data.evidences[i].type = TRL}
        crl_evidences == {i \in DOMAIN data.evidences : data.evidences[i].type = CRL}
        has_matching_trl ==
            \E i \in trl_evidences : data.evidences[i].level <= data.current_trl
        has_matching_crl ==
            \E i \in crl_evidences : data.evidences[i].level <= data.current_crl[1]
    IN  /\ has_matching_trl
        /\ (data.current_crl # <<>>) => has_matching_crl

\* serializer.is_valid(): field validation, then validate()
WizardIsValid(data) == WizardFieldsValid(data) /\ validate(data)

\* update_fields of startup.save() in OnboardingWizardSerializer.create
WizardUpdateFields ==
    {"company_name", "industry", "is_mock_data", "onboarding_completed", "updated"}

\* The body of OnboardingWizardSerializer.create for the startup with id sid.
\* fault names the step at which the database fails, if any.
WizardCreateBody(db, sid, data, fault) ==
    LET \* STEP 1: delete all mock data
        db1 == [db EXCEPT !.evidences = {e \in @ : e.startup # sid}]
        db2 == [db1 EXCEPT !.finputs = {f \in @ : f.startup # sid},
                           !.pipeline = {p \in @ : p.startup # sid}]
        \* STEP 2: create real data
        ev_rows == {[id |-> db.nextId["evidence"] + i - 1, startup |-> sid,
                     type |-> data.evidences[i].type,
                     level |-> data.evidences[i].level,
                     status |-> PENDING, reviewer_notes |-> NullStr]
                    : i \in DOMAIN data.evidences}
        db3 == [db2 EXCEPT !.evidences = @ \cup ev_rows,
                           !.nextId["evidence"] = @ + Len(data.evidences)]
        \* unique_together (startup, period_date)
        fin_unique ==
            /\ Len(data.financial_data) = Cardinality(Range(data.financial_data))
            /\ \A f \in db2.finputs :
                   ~(f.startup = sid /\ f.period_date \in Range(data.financial_data))
        fin_rows == {[id |-> db.nextId["finput"] + i - 1, startup |-> sid,
                      period_date |-> data.financial_data[i]]
                     : i \in DOMAIN data.financial_data}
        inv_rows == {[id |-> db.nextId["pipeline"] + i - 1, startup |-> sid,
                      investor_name |-> data.investors[i], stage |-> CONTACTED,
                      round |-> 0, ticket_size |-> <<>>]
                     : i \in DOMAIN data.investors}
        db4 == [db3 EXCEPT !.finputs = @ \cup fin_rows,
                           !.nextId["finput"] = @ + Len(data.financial_data),
                           !.pipeline = @ \cup inv_rows,
                           !.nextId["pipeline"] = @ + Len(data.investors)]
        \* STEP 3: update startup
        db5 == [db4 EXCEPT !.startups =
                   {IF s.id = sid
                    THEN [s EXCEPT !.company_name = data.company_name,
                                   !.industry = data.industry,
                                   !.onboarding_completed = TRUE]
                    ELSE s : s \in @}]
        camp == CampaignGetOrCreate(db5, sid)
        fin == FinancialsGetOrCreate(camp.db, camp.row.id)
        db6 == [fin.db EXCEPT !.cfins =
                   {IF f.id = fin.row.id
                    THEN [f EXCEPT !.financial_projections = data.financial_projections]
                    ELSE f : f \in @}]
    IN  IF fault = "delete" THEN Raised(db1, "delete")
        ELSE IF fault = "create" \/ ~fin_unique THEN Raised(db3, "create")
        ELSE IF fault = "startup" \/ ~UpdateFieldsOk(WizardUpdateFields, StartupFields)
        THEN Raised(db4, "startup")
        ELSE IF ~camp.ok THEN Raised(camp.db, "financials")
        ELSE IF fault = "financials" \/ ~fin.ok THEN Raised(fin.db, "financials")
        ELSE Done(db6, CHOOSE s \in db6.startups : s.id = sid)

\* OnboardingWizardSerializer.create is decorated @transaction.atomic
WizardCreate(db, sid, data, fault) == Atomic(db, WizardCreateBody(db, sid, data, fault))

(***************************************************************************)
(* users/views.py                                                          *)
(***************************************************************************)
Response(op, u, status, arg, out) ==
    [op |-> op, user |-> u, status |-> status, arg |-> arg, out |-> out]

\* OnboardingCompleteView.post, a user that is no startup user
OnboardingCompleteDenied(u) ==
    /\ ~HasProfile(u) \/ UserType(u) # STARTUP
    /\ resp' = Response("wizard", u, IF HasProfile(u) THEN HTTP_403 ELSE HTTP_404,
                        <<>>, [validated |-> FALSE, failed_at |-> "permission",
                               fault |-> "none", startup |-> 0])
    /\ UNCHANGED <<userVars, readyVars, onbVars, campVars, nextId>>

\* OnboardingCompleteView.post, a startup user
OnboardingCompletePost(u, data, fault) ==
    /\ HasProfile(u) /\ UserType(u) = STARTUP
    /\ LET got == StartupGetOrCreate(Database, u)
           sid == got.row.id
       IN  IF ~WizardIsValid(data)
           THEN \* ValidationError is caught by "except Exception"
                /\ fault = "none"
                /\ Persist(got.db)
                /\ resp' = Response("wizard", u, HTTP_500, data,
                                    [validated |-> FALSE, failed_at |-> "validation",
                                     fault |-> "none", startup |-> sid])
           ELSE LET res == WizardCreate(got.db, sid, data, fault)
                IN  /\ Persist(res.db)
                    /\ resp' = Response("wizard", u,
                                        IF res.ok THEN HTTP_201 ELSE HTTP_500, data,
                                        [validated |-> TRUE, failed_at |-> res.failed_at,
                                         fault |-> fault, startup |-> sid])

\* The startup onboarding form: TRL_level and CRL_level may be left out.
OnboardingPayloads ==
    [company_name : {"", "Acme"}, industry : Industries,
     TRL_level : {<<>>, <<5>>, <<10>>}, CRL_level : {<<>>, <<3>>}]

\* StartupOnboardingSerializer: fields company_name, industry, TRL_level,
\* CRL_level; the level fields take the model's choices 1..9.
StartupOnboardingIsValid(data) ==
    /\ data.company_name # ""
    /\ data.industry # ""
    /\ \A i \in DOMAIN data.TRL_level : validate_level(data.TRL_level[i])
    /\ \A i \in DOMAIN data.CRL_level : validate_level(data.CRL_level[i])

\* StartupOnboardingSerializer.save(): ModelSerializer.update
StartupOnboardingSave(s, data) ==
    [s EXCEPT !.company_name = data.company_name,
              !.industry = data.industry,
              !.TRL_level = IF data.TRL_level = <<>> THEN @ ELSE data.TRL_level[1],
              !.CRL_level = IF data.CRL_level = <<>> THEN @ ELSE data.CRL_level[1]]

\* StartupOnboardingView.get
StartupOnboardingGet(u) ==
    IF ~HasProfile(u) \/ UserType(u) # STARTUP
    THEN /\ resp' = Response("onboarding_get", u,
                             IF HasProfile(u) THEN HTTP_403 ELSE HTTP_404, <<>>, <<>>)
         /\ UNCHANGED <<userVars, readyVars, onbVars, campVars, nextId>>
    ELSE LET got == StartupGetOrCreate(Database, u)
         IN  /\ Persist(got.db)
             /\ resp' = Response("onboarding_get", u, HTTP_200, <<>>, got.row)

\* StartupOnboardingView.post
StartupOnboardingPost(u, data) ==
    IF ~HasProfile(u) \/ UserType(u) # STARTUP
    THEN /\ resp' = Response("onboarding_post", u,
                             IF HasProfile(u) THEN HTTP_403 ELSE HTTP_404, <<>>, <<>>)
         /\ UNCHANGED <<userVars, readyVars, onbVars, campVars, nextId>>
    ELSE LET got == StartupGetOrCreate(Database, u)
             saved == StartupOnboardingSave(got.row, data)
         IN  IF ~StartupOnboardingIsValid(data)
             THEN /\ Persist(got.db)
                  /\ resp' = Response("onboarding_post", u, HTTP_400, data, got.row)
             ELSE /\ Persist([got.db EXCEPT !.startups = (@ \ {got.row}) \cup {saved}])
                  /\ resp' = Response("onboarding_post", u, HTTP_200, data, saved)

\* EvidenceViewSet (route startup/evidences), create: the startup user adds
\* an evidence to their own startup; status is read-only in EvidenceSerializer,
\* so the row starts PENDING.
EvidenceCreate(u, in, max) ==
    /\ HasStartup(u)
    /\ validate_type(in.type) /\ validate_level(in.level)
    /\ nextId["evidence"] <= max
    /\ LET e == [id |-> nextId["evidence"], startup |-> StartupOf(u).id,
                 type |-> in.type, level |-> in.level, status |-> PENDING,
                 reviewer_notes |-> NullStr]
       IN  /\ evidences' = evidences \cup {e}
           /\ nextId' = [nextId EXCEPT !["evidence"] = @ + 1]
           /\ resp' = Response("evidence_create", u, HTTP_201, in, e)
    /\ UNCHANGED <<userVars, rlevels, onbVars, campVars>>

(***************************************************************************)
(* The empty database.                                                     *)
(***************************************************************************)
Init ==
    /\ startups = {} /\ assoc = {} /\ incubators = {} /\ members = {}
    /\ evidences = {} /\ rlevels = {} /\ finputs = {} /\ pipeline = {}
    /\ fundrounds = {} /\ challenges = {}
    /\ campaigns = {} /\ cfins = {} /\ rounds = {} /\ investors = {}
    /\ nextId = [t \in Tables |-> 1]
    /\ txns = [p \in Connections |-> Idle]
    /\ resp = Response("none", "anon", 0, <<>>, <<>>)

(***************************************************************************)
(* SpecWizard: the onboarding wizard endpoint, on startups that may        *)
(* already own evidence.                                                   *)
(***************************************************************************)
NextWizard ==
    \/ \E u \in StartupUsers, data \in WizardPayloads :
           OnboardingCompletePost(u, data, "none")
    \/ \E u \in StartupUsers, fault \in DatabaseFaults :
           OnboardingCompletePost(u, BasePayload, fault)
    \/ \E u \in Users : OnboardingCompleteDenied(u)
    \/ \E u \in StartupUsers : StartupOnboardingGet(u)
    \/ \E u \in StartupUsers : EvidenceCreate(u, [type |-> TRL, level |-> 1], MaxSeed)

SpecWizard == Init /\ [][NextWizard]_vars

(***************************************************************************)
(* Claims about the onboarding wizard (SpecWizard).                        *)
(***************************************************************************)
WizardAnswered == resp.op = "wizard" /\ resp.out.validated /\ resp.out.fault = "none"
EvidencesOf(sid) == {e \in evidences : e.startup = sid}
FinancialInputsOf(sid) == {f \in finputs : f.startup = sid}
InvestorPipelineOf(sid) == {p \in pipeline : p.startup = sid}

\* The records of startup sid are the ones submitted in data, one per entry.
RecordsAreSubmitted(sid, data) ==
    /\ Cardinality(EvidencesOf(sid)) = Len(data.evidences)
    /\ \A e \in EvidencesOf(sid) : \E i \in DOMAIN data.evidences :
           data.evidences[i] = [type |-> e.type, level |-> e.level]
    /\ \A i \in DOMAIN data.evidences : \E e \in EvidencesOf(sid) :
           data.evidences[i] = [type |-> e.type, level |-> e.level]
    /\ Cardinality(FinancialInputsOf(sid)) = Len(data.financial_data)
    /\ {f.period_date : f \in FinancialInputsOf(sid)} = Range(data.financial_data)
    /\ Cardinality(InvestorPipelineOf(sid)) = Len(data.investors)
    /\ {p.investor_name : p \in InvestorPipelineOf(sid)} = Range(data.investors)

C2_WizardAllOrNothing ==
    [][(resp'.op = "wizard" /\ resp'.out.validated /\ resp'.out.failed_at # "none")
        => /\ resp'.status = HTTP_500
           /\ evidences' = evidences
           /\ finputs' = finputs
           /\ pipeline' = pipeline
           /\ campaigns' = campaigns
           /\ cfins' = cfins
           /\ startups \subseteq startups']_vars

\* C2 witness: create() raised while creating the new records of a startup
\* that owned evidence, after that evidence had been deleted in the block.
C2_Witness ==
    /\ resp.op = "wizard" /\ resp.out.validated
    /\ resp.out.failed_at = "create"
    /\ resp.status = HTTP_500
    /\ EvidencesOf(resp.out.startup) # {}

\* C3: a wizard POST by a startup user with a payload that passes validation
\* answers 201 and leaves onboarding_completed True and company_name and
\* industry as submitted.
C3_WizardCompletes ==
    (WizardAnswered /\ UserType(resp.user) = STARTUP)
        => /\ resp.status = HTTP_201
           /\ \E s \in startups :
                  /\ s.id = resp.out.startup
                  /\ s.onboarding_completed
                  /\ s.company_name = resp.arg.company_name
                  /\ s.industry = resp.arg.industry

(***************************************************************************)
(* users/models.py: Startup.update_maturity_levels                         *)
(***************************************************************************)
\* Mutant of has_approved_evidence: the status filter is left out.
has_any_evidence(evs, sid, type_code, i) ==
    \E e \in evs : e.startup = sid /\ e.type = type_code /\ e.level = i

\* self.evidences.filter(type=type_code, level=i, status=APPROVED).exists()
has_approved_evidence(evs, sid, type_code, i) ==
    \E e \in evs : e.startup = sid /\ e.type = type_code /\ e.level = i
                   /\ e.status = APPROVED

\* The loop "for i in range(1, 10)" entered at i with current_level.
RECURSIVE LevelLoop(_, _, _, _, _)
LevelLoop(evs, sid, type_code, i, current_level) ==
    IF i > MaxLevel THEN current_level
    ELSE IF has_approved_evidence(evs, sid, type_code, i)
    THEN LevelLoop(evs, sid, type_code, i + 1, i)
    ELSE current_level

\* Startup.update_maturity_levels on row s
update_maturity_levels(evs, s) ==
    [s EXCEPT !.TRL_level = LevelLoop(evs, s.id, TRL, 1, 0),
              !.CRL_level = LevelLoop(evs, s.id, CRL, 1, 0)]

\* A call of startup.update_maturity_levels()
UpdateMaturityLevels(sid) ==
    /\ \E s \in startups : s.id = sid
    /\ LET s == CHOOSE r \in startups : r.id = sid
           saved == update_maturity_levels(evidences, s)
       IN  /\ startups' = (startups \ {s}) \cup {saved}
           /\ resp' = Response("update_maturity_levels", "anon", 0, sid, saved)
    /\ UNCHANGED <<assoc, incubators, members, readyVars, onbVars, campVars, nextId>>

(***************************************************************************)
(* users/views_incubator.py                                                *)
(***************************************************************************)
NewIncubator(id, u) == [id |-> id, profile |-> u, name |-> "", profile_complete |-> FALSE]

\* Incubator.objects.get_or_create(profile=profile, defaults={'name': ''})
IncubatorGetOrCreate(db, u) ==
    IF IncubatorsOfProfile(db.incubators, u) # {}
    THEN Done(db, CHOOSE i \in IncubatorsOfProfile(db.incubators, u) : TRUE)
    ELSE LET i == NewIncubator(db.nextId["incubator"], u)
         IN  Done([db EXCEPT !.incubators = @ \cup {i},
                             !.nextId["incubator"] = @ + 1], i)

\* IncubatorDataView.get
IncubatorDataGet(u) ==
    IF ~HasProfile(u) \/ UserType(u) # INCUBATOR
    THEN /\ resp' = Response("incubator_data", u,
                             IF HasProfile(u) THEN HTTP_403 ELSE HTTP_404, <<>>, <<>>)
         /\ UNCHANGED <<userVars, readyVars, onbVars, campVars, nextId>>
    ELSE LET got == IncubatorGetOrCreate(Database, u)
         IN  /\ Persist(got.db)
             /\ resp' = Response("incubator_data", u, HTTP_200, <<>>, got.row)

IncubatorNames == {"", "Hub"}

\* IncubatorOnboardingView.post: partial update of name, then profile_complete
IncubatorOnboardingPost(u, name) ==
    IF ~HasProfile(u) \/ UserType(u) # INCUBATOR
    THEN /\ resp' = Response("incubator_onboarding", u,
                             IF HasProfile(u) THEN HTTP_403 ELSE HTTP_404, <<>>, <<>>)
         /\ UNCHANGED <<userVars, readyVars, onbVars, campVars, nextId>>
    ELSE LET got == IncubatorGetOrCreate(Database, u)
             saved == [got.row EXCEPT !.name = name, !.profile_complete = TRUE]
         IN  IF name = ""   \* validate_name
             THEN /\ Persist(got.db)
                  /\ resp' = Response("incubator_onboarding", u, HTTP_400, name, got.row)
             ELSE /\ Persist([got.db EXCEPT !.incubators = (@ \ {got.row}) \cup {saved}])
                  /\ resp' = Response("incubator_onboarding", u, HTTP_200, name, saved)

\* StartupIncubatorAssociationViewSet.associate; incubator_ids is a list
associate(u, incubator_ids) ==
    /\ UNCHANGED <<startups, incubators, members, readyVars, onbVars, campVars, nextId>>
    /\ IF ~HasProfile(u) \/ UserType(u) # STARTUP
       THEN /\ resp' = Response("associate", u, HTTP_403, incubator_ids, {})
            /\ UNCHANGED assoc
       ELSE IF ~HasStartup(u)
       THEN /\ resp' = Response("associate", u, HTTP_404, incubator_ids, {})
            /\ UNCHANGED assoc
       ELSE LET sid == StartupOf(u).id
                \* Incubator.objects.filter(id__in=incubator_ids)
                found == {i \in incubators : i.id \in Range(incubator_ids)}
            IN  IF Cardinality(found) # Len(incubator_ids)
                THEN /\ resp' = Response("associate", u, HTTP_400, incubator_ids, {})
                     /\ UNCHANGED assoc
                ELSE \* startup.incubators.set(incubators)
                     /\ assoc' = {p \in assoc : p[1] # sid}
                                 \cup {<<sid, i.id>> : i \in found}
                     /\ resp' = Response("associate", u, HTTP_200, incubator_ids,
                                         {i.id : i \in found})

\* PortfolioEvidenceViewSet.get_queryset
PortfolioEvidenceQueryset(u) ==
    IF HasProfile(u) /\ UserType(u) = INCUBATOR
    THEN {e \in evidences : e.startup \in PortfolioIds(IncubatorOf(u).id)}
    ELSE {}

\* The body of a review: reviewer_notes may be left out.
ReviewPayloads ==
    [status : {PENDING, APPROVED, REJECTED, "ACCEPTED"}, reviewer_notes : {<<>>, <<"ok">>}]

\* EvidenceReviewSerializer: status is one of PENDING, APPROVED, REJECTED
ReviewIsValid(data) == data.status \in {PENDING, APPROVED, REJECTED}

\* Mutant of update_startup_level: the level is stored without comparing.
set_startup_level(s, evidence) ==
    IF evidence.type = TRL THEN [s EXCEPT !.TRL_level = evidence.level]
    ELSE IF evidence.type = CRL THEN [s EXCEPT !.CRL_level = evidence.level]
    ELSE s

\* PortfolioEvidenceViewSet._update_startup_level
update_startup_level(s, evidence) ==
    IF evidence.type = TRL
    THEN IF evidence.level > s.TRL_level
         THEN [s EXCEPT !.TRL_level = evidence.level] ELSE s
    ELSE IF evidence.type = CRL
    THEN IF evidence.level > s.CRL_level
         THEN [s EXCEPT !.CRL_level = evidence.level] ELSE s
    ELSE s

\* PortfolioEvidenceViewSet.review
review(u, pk, data) ==
    /\ UNCHANGED <<assoc, incubators, members, rlevels, onbVars, campVars, nextId>>
    /\ IF HasProfile(u) /\ UserType(u) = INCUBATOR /\ ~HasIncubator(u)
       THEN \* request.user.profile.incubator raises RelatedObjectDoesNotExist
            /\ resp' = Response("review", u, HTTP_500, <<pk, data>>, NoRow)
            /\ UNCHANGED <<startups, evidences>>
       ELSE IF ~\E e \in PortfolioEvidenceQueryset(u) : e.id = pk
       THEN \* get_object(): not in the queryset
            /\ resp' = Response("review", u, HTTP_404, <<pk, data>>, NoRow)
            /\ UNCHANGED <<startups, evidences>>
       ELSE LET evidence == CHOOSE e \in PortfolioEvidenceQueryset(u) : e.id = pk
                s == CHOOSE r \in startups : r.id = evidence.startup
                saved == [evidence EXCEPT !.status = data.status,
                                          \* validated_data.get('reviewer_notes', '')
                                          !.reviewer_notes =
                                              IF data.reviewer_notes = <<>> THEN ""
                                              ELSE data.reviewer_notes[1]]
            IN  IF evidence.startup \notin PortfolioIds(IncubatorOf(u).id)
                THEN /\ resp' = Response("review", u, HTTP_403, <<pk, data>>, NoRow)
                     /\ UNCHANGED <<startups, evidences>>
                ELSE IF ~ReviewIsValid(data)
                THEN /\ resp' = Response("review", u, HTTP_400, <<pk, data>>, NoRow)
                     /\ UNCHANGED <<startups, evidences>>
                ELSE /\ evidences' = (evidences \ {evidence}) \cup {saved}
                     /\ startups' = IF saved.status = APPROVED
                                    THEN (startups \ {s}) \cup {update_startup_level(s, saved)}
                                    ELSE startups
                     /\ resp' = Response("review", u, HTTP_200, <<pk, data>>, saved)

(***************************************************************************)
(* SpecReadiness: one startup, its evidence and the incubator reviewing it *)
(***************************************************************************)
AssociateInputs == SeqsUpTo({1, 2}, 1)

NextReadiness ==
    \/ \E data \in OnboardingPayloads : StartupOnboardingPost("s1", data)
    \/ \E in \in EvidenceInputs : EvidenceCreate("s1", in, MaxEvidence)
    \/ IncubatorDataGet("i1")
    \/ \E ids \in AssociateInputs : associate("s1", ids)
    \/ \E u \in {"i1", "s1"}, pk \in 1..MaxEvidence, data \in ReviewPayloads :
           data.reviewer_notes = <<>> /\ review(u, pk, data)
    \/ \E sid \in {1} : UpdateMaturityLevels(sid)

SpecReadiness == Init /\ [][NextReadiness]_vars

(***************************************************************************)
(* SpecReview: the evidence of one startup, reviewed with and without      *)
(* notes by an incubator, while it is associated with the startup and      *)
(* while it is not, and by the startup user.                               *)
(***************************************************************************)
ReviewInputs ==
    {d \in ReviewPayloads : d.reviewer_notes # <<>> \/ d.status = APPROVED}

NextReview ==
    \/ StartupOnboardingGet("s1")
    \/ \E in \in EvidenceInputs : EvidenceCreate("s1", in, MaxEvidence)
    \/ IncubatorDataGet("i1")
    \/ \E ids \in {<<>>, <<1>>} : associate("s1", ids)
    \/ \E pk \in 1..MaxEvidence, data \in ReviewInputs : review("i1", pk, data)
    \/ \E pk \in 1..MaxEvidence :
           review("s1", pk, [status |-> APPROVED, reviewer_notes |-> <<>>])
    \/ UpdateMaturityLevels(1)

SpecReview == Init /\ [][NextReview]_vars

\* C8: each Startup's TRL_level and CRL_level is an integer between 1 and 9.
C8_LevelsInRange ==
    \A s \in startups :
        /\ s.TRL_level \in MinLevel..MaxLevel
        /\ s.CRL_level \in MinLevel..MaxLevel

\* C9: a Startup whose TRL_level (CRL_level) is n > 1 has an APPROVED
\* Evidence of type TRL (CRL) and level n.
C9_LevelSubstantiated ==
    \A s \in startups :
        /\ s.TRL_level > 1 => has_approved_evidence(evidences, s.id, TRL, s.TRL_level)
        /\ s.CRL_level > 1 => has_approved_evidence(evidences, s.id, CRL, s.CRL_level)

(***************************************************************************)
(* campaigns/models.py, campaigns/serializers.py                           *)
(***************************************************************************)
CampaignsOfStartup(sid) == {c \in campaigns : c.startup = sid}
\* hasattr(startup, 'campaign')
HasCampaign(sid) == CampaignsOfStartup(sid) # {}
RoundsOf(cid) == {r \in rounds : r.campaign = cid}
\* Mutant of InvestorsOf: the investors of every round.
InvestorsOfAny(tbl, rid) == tbl

\* round.investors.all()
InvestorsOf(tbl, rid) == {i \in tbl : i.round = rid}

\* Mutant of InvestmentRoundSave: the row is written, no other row is touched.
InvestmentRoundSaveOnly(tbl, r) == {o \in tbl : o.id # r.id} \cup {r}

\* InvestmentRound.save() of row r into table tbl
InvestmentRoundSave(tbl, r) ==
    LET others == IF r.is_current
                  THEN {IF o.campaign = r.campaign /\ o.is_current /\ o.id # r.id
                        THEN [o EXCEPT !.is_current = FALSE] ELSE o : o \in tbl}
                  ELSE tbl
    IN  {o \in others : o.id # r.id} \cup {r}

RECURSIVE SumCommitted(_)
\* sum(inv.amount for inv in invs if inv.status == COMMITTED)
SumCommitted(invs) ==
    IF invs = {} THEN 0
    ELSE LET inv == CHOOSE x \in invs : TRUE
         IN  (IF inv.status = COMMITTED THEN inv.amount ELSE 0)
             + SumCommitted(invs \ {inv})

RECURSIVE SumAmounts(_)
\* The sum of amount over a set of investor rows.
SumAmounts(invs) ==
    IF invs = {} THEN 0
    ELSE LET inv == CHOOSE x \in invs : TRUE
         IN  inv.amount + SumAmounts(invs \ {inv})

\* Mutant of get_total_committed_amount: the status of an investor is ignored.
total_amount_any_status(db, obj) == SumAmounts(InvestorsOf(db.investors, obj.id))

\* InvestmentRoundSerializer.get_total_committed_amount, reading database db
get_total_committed_amount(db, obj) == SumCommitted(InvestorsOf(db.investors, obj.id))

\* InvestmentRoundSerializer.to_representation
RoundRepresentation(db, obj) ==
    [id |-> obj.id, is_current |-> obj.is_current,
     total_committed_amount |-> get_total_committed_amount(db, obj)]

RECURSIVE SumRounds(_)
\* the loop "for round in obj.campaign.rounds.all(): total += ..."
SumRounds(rs) ==
    IF rs = {} THEN 0
    ELSE LET round == CHOOSE x \in rs : TRUE
         IN  SumCommitted(InvestorsOf(investors, round.id)) + SumRounds(rs \ {round})

\* CampaignFinancialsSerializer.get_total_capital_injection
get_total_capital_injection(obj) == SumRounds(RoundsOf(obj.campaign))

\* CampaignFinancialsSerializer.to_representation
FinancialsRepresentation(obj) ==
    [id |-> obj.id, financial_projections |-> obj.financial_projections,
     total_capital_injection |-> get_total_capital_injection(obj)]

\* Campaign.delete(): on_delete=CASCADE of financials, rounds and their investors
CampaignDelete(db, c) ==
    LET gone == {r.id : r \in {x \in db.rounds : x.campaign = c.id}}
    IN  [db EXCEPT !.campaigns = @ \ {c},
                   !.cfins = {f \in @ : f.campaign # c.id},
                   !.rounds = {r \in @ : r.campaign # c.id},
                   !.investors = {i \in @ : i.round \notin gone}]

\* InvestmentRound.delete(): on_delete=CASCADE of its investors
RoundDelete(db, r) ==
    [db EXCEPT !.rounds = @ \ {r}, !.investors = {i \in @ : i.round # r.id}]

(***************************************************************************)
(* campaigns/views.py: CampaignViewSet                                     *)
(***************************************************************************)
\* Mutant of CampaignQueryset: no ownership filter.
CampaignQuerysetAll(u) == campaigns

\* CampaignViewSet.get_queryset: profile.startup raises (an AttributeError)
\* for a user with no profile or no startup
CampaignQueryset(u) ==
    IF HasStartup(u) THEN {c \in campaigns : c.startup = StartupOf(u).id} ELSE {}

\* CampaignViewSet.list
CampaignList(u) ==
    /\ resp' = Response("campaign_list", u, HTTP_200, <<>>, CampaignQueryset(u))
    /\ UNCHANGED <<userVars, readyVars, onbVars, campVars, nextId>>

\* CampaignViewSet.retrieve
CampaignRetrieve(u, pk) ==
    /\ LET found == {c \in CampaignQueryset(u) : c.id = pk}
       IN  resp' = Response("campaign_retrieve", u,
                            IF found = {} THEN HTTP_404 ELSE HTTP_200, pk, found)
    /\ UNCHANGED <<userVars, readyVars, onbVars, campVars, nextId>>

ProblemTexts == {"pain"}

\* The body of a campaign update: a status may be sent along.
CampaignPayloads == [problem : ProblemTexts, status : {<<>>, <<DRAFT>>}]

\* Mutant of CampaignSerializerSave: status is a writable field.
CampaignSerializerSaveStatus(c, data) ==
    [c EXCEPT !.problem = data.problem,
              !.status = IF data.status = <<>> THEN @ ELSE data.status[1]]

\* CampaignSerializer on an existing campaign: startup and status are in
\* read_only_fields, so a status in the body is dropped.
CampaignSerializerSave(c, data) == [c EXCEPT !.problem = data.problem]

\* CampaignViewSet.update / partial_update
CampaignUpdate(u, pk, data) ==
    /\ LET found == {c \in CampaignQueryset(u) : c.id = pk}
       IN  IF found = {}
           THEN /\ resp' = Response("campaign_update", u, HTTP_404, pk, {})
                /\ UNCHANGED campaigns
           ELSE LET c == CHOOSE x \in found : TRUE
                    saved == CampaignSerializerSave(c, data)
                IN  /\ campaigns' = (campaigns \ {c}) \cup {saved}
                    /\ resp' = Response("campaign_update", u, HTTP_200, pk, {saved})
    /\ UNCHANGED <<userVars, readyVars, onbVars, cfins, rounds, investors, nextId>>

\* CampaignViewSet.destroy
CampaignDestroy(u, pk) ==
    LET found == {c \in CampaignQueryset(u) : c.id = pk}
    IN  IF found = {}
        THEN /\ resp' = Response("campaign_destroy", u, HTTP_404, pk, {})
             /\ UNCHANGED <<userVars, readyVars, onbVars, campVars, nextId>>
        ELSE /\ Persist(CampaignDelete(Database, CHOOSE x \in found : TRUE))
             /\ resp' = Response("campaign_destroy", u, HTTP_204, pk, {})

\* CampaignViewSet.create with perform_create
CampaignPerformCreate(u) ==
    IF ~HasProfile(u)
    THEN /\ resp' = Response("campaign_create", u, HTTP_400, <<>>, {})
         /\ UNCHANGED <<userVars, readyVars, onbVars, campVars, nextId>>
    ELSE LET got == StartupGetOrCreate(Database, u)
             made == CampaignCreate(got.db, got.row.id)
         IN  /\ made.db.nextId["campaign"] <= MaxCampaigns + 1
             /\ Persist(made.db)
             /\ resp' = Response("campaign_create", u,
                                 IF made.ok THEN HTTP_201 ELSE HTTP_500, <<>>,
                                 IF made.ok THEN {made.row} ELSE {})

\* CampaignViewSet.my_campaign
my_campaign(u) ==
    IF ~HasProfile(u)
    THEN /\ resp' = Response("my_campaign", u, HTTP_404, <<>>, {})
         /\ UNCHANGED <<userVars, readyVars, onbVars, campVars, nextId>>
    ELSE LET got == StartupGetOrCreate(Database, u)
             camp == CampaignGetOrCreate(got.db, got.row.id)
         IN  /\ camp.db.nextId["campaign"] <= MaxCampaigns + 1
             /\ Persist(camp.db)
             /\ resp' = Response("my_campaign", u,
                                 IF camp.ok THEN HTTP_200 ELSE HTTP_500, <<>>,
                                 IF camp.ok THEN {camp.row} ELSE {})

\* CampaignViewSet.submit
submit(u, pk) ==
    /\ LET found == {c \in CampaignQueryset(u) : c.id = pk}
       IN  IF found = {}
           THEN /\ resp' = Response("submit", u, HTTP_404, pk, {})
                /\ UNCHANGED campaigns
           ELSE LET campaign == CHOOSE x \in found : TRUE
                    saved == [campaign EXCEPT !.status = SUBMITTED]
                IN  IF campaign.status # DRAFT
                    THEN /\ resp' = Response("submit", u, HTTP_400, pk, {})
                         /\ UNCHANGED campaigns
                    ELSE /\ campaigns' = (campaigns \ {campaign}) \cup {saved}
                         /\ resp' = Response("submit", u, HTTP_200, pk, {saved})
    /\ UNCHANGED <<userVars, readyVars, onbVars, cfins, rounds, investors, nextId>>

Projections == {"q1"}

\* CampaignViewSet.financials; method is GET or PATCH
financials(u, pk, method, projections) ==
    LET found == {c \in CampaignQueryset(u) : c.id = pk}
    IN  IF found = {}
        THEN /\ resp' = Response("financials", u, HTTP_404, <<pk, method>>, {})
             /\ UNCHANGED <<userVars, readyVars, onbVars, campVars, nextId>>
        ELSE LET campaign == CHOOSE x \in found : TRUE
                 got == FinancialsGetOrCreate(Database, campaign.id)
                 saved == [got.row EXCEPT !.financial_projections = projections]
             IN  /\ got.db.nextId["cfin"] <= MaxId + 1
                 /\ IF method = "GET"
                    THEN /\ Persist(got.db)
                         /\ resp' = Response("financials", u, HTTP_200, <<pk, method>>,
                                             {FinancialsRepresentation(got.row)})
                    ELSE /\ Persist([got.db EXCEPT !.cfins = (@ \ {got.row}) \cup {saved}])
                         /\ resp' = Response("financials", u, HTTP_200, <<pk, method>>,
                                             {FinancialsRepresentation(saved)})

\* CampaignViewSet.by_startup
by_startup(u, startup_id) ==
    LET deny(status) ==
            /\ resp' = Response("by_startup", u, status, startup_id, {})
            /\ UNCHANGED <<userVars, readyVars, onbVars, campVars, nextId>>
    IN  IF ~HasProfile(u) THEN deny(HTTP_404)
        ELSE IF ~\E s \in startups : s.id = startup_id THEN deny(HTTP_404)
        ELSE IF UserType(u) = INCUBATOR /\ ~HasIncubator(u) THEN deny(HTTP_500)
        ELSE IF UserType(u) = INCUBATOR
                /\ startup_id \notin PortfolioIds(IncubatorOf(u).id)
        THEN deny(HTTP_403)
        ELSE IF UserType(u) = STARTUP /\ ~HasStartup(u) THEN deny(HTTP_500)
        ELSE IF UserType(u) = STARTUP /\ StartupOf(u).id # startup_id
        THEN deny(HTTP_403)
        ELSE LET camp == CampaignGetOrCreate(Database, startup_id)
             IN  /\ camp.db.nextId["campaign"] <= MaxCampaigns + 1
                 /\ Persist(camp.db)
                 /\ resp' = Response("by_startup", u, HTTP_200, startup_id, {camp.row})

(***************************************************************************)
(* campaigns/views.py: RoundViewSet                                        *)
(***************************************************************************)
\* RoundViewSet.get_queryset
RoundQueryset(u) ==
    IF HasStartup(u) /\ HasCampaign(StartupOf(u).id)
    THEN LET campaign == CHOOSE c \in CampaignsOfStartup(StartupOf(u).id) : TRUE
         IN  {r \in rounds : r.campaign = campaign.id}
    ELSE {}

\* RoundViewSet.list
RoundList(u) ==
    /\ resp' = Response("round_list", u, HTTP_200, <<>>,
                        {RoundRepresentation(Database, r) : r \in RoundQueryset(u)})
    /\ UNCHANGED <<userVars, readyVars, onbVars, campVars, nextId>>

\* RoundViewSet.retrieve: the serialized round carries total_committed_amount
RoundRetrieve(u, pk) ==
    /\ LET found == {r \in RoundQueryset(u) : r.id = pk}
       IN  resp' = Response("round_retrieve", u,
                            IF found = {} THEN HTTP_404 ELSE HTTP_200, pk,
                            {RoundRepresentation(Database, r) : r \in found})
    /\ UNCHANGED <<userVars, readyVars, onbVars, campVars, nextId>>

NewRound(id, cid, is_current) == [id |-> id, campaign |-> cid, is_current |-> is_current]

\* RoundViewSet.create with perform_create (no nested investors in the body)
RoundPerformCreate(u, is_current) ==
    IF ~HasStartup(u)
    THEN /\ resp' = Response("round_create", u, HTTP_400, is_current, {})
         /\ UNCHANGED <<userVars, readyVars, onbVars, campVars, nextId>>
    ELSE LET camp == IF HasCampaign(StartupOf(u).id)
                     THEN Done(Database,
                               CHOOSE c \in CampaignsOfStartup(StartupOf(u).id) : TRUE)
                     ELSE CampaignCreate(Database, StartupOf(u).id)
             round == NewRound(camp.db.nextId["round"], camp.row.id, is_current)
         IN  /\ camp.db.nextId["campaign"] <= MaxCampaigns + 1
             /\ nextId["round"] <= MaxRounds
             /\ Persist([camp.db EXCEPT !.rounds = InvestmentRoundSave(@, round),
                                        !.nextId["round"] = @ + 1])
             /\ resp' = Response("round_create", u, HTTP_201, is_current,
                                 {RoundRepresentation(camp.db, round)})

InvestorStatuses == {CONTACTED, COMMITTED}
NoId == 0

\* One element of the "investors" list of a round update; id NoId is an
\* omitted id.
InvestorInputs ==
    [id : {NoId}, incubator_id : {1}, status : InvestorStatuses, amount : {100}]
    \cup [id : {1}, incubator_id : {1}, status : {COMMITTED}, amount : {250}]
    \cup [id : {2}, incubator_id : {2}, status : {CONTACTED}, amount : {250}]

\* The body of a round update: investors is <<>> when the key is omitted,
\* <<list>> when it is given.
RoundPayloads ==
    [is_current : BOOLEAN,
     investors : {<<>>} \cup {<<l>> : l \in SeqsUpTo(InvestorInputs, MaxList)}]

\* InvestorSerializer validation: incubator_id is a PrimaryKeyRelatedField
\* over Incubator.objects.all()
InvestorIsValid(inv) == \E i \in incubators : i.id = inv.incubator_id

RoundIsValid(data) ==
    data.investors = <<>>
    \/ \A k \in 1..Len(data.investors[1]) : InvestorIsValid(data.investors[1][k])

RECURSIVE UpsertInvestors(_, _, _, _, _)
\* Step 4 of InvestmentRoundSerializer.update: "for inv_data in investors_data"
UpsertInvestors(tbl, next, rid, existing_ids, investors_data) ==
    IF investors_data = <<>> THEN [tbl |-> tbl, next |-> next]
    ELSE LET inv_data == Head(investors_data)
             inv_id == inv_data.id
         IN  IF inv_id # NoId /\ inv_id \in existing_ids
             THEN UpsertInvestors(
                      {IF i.id = inv_id
                       THEN [i EXCEPT !.incubator = inv_data.incubator_id,
                                      !.status = inv_data.status,
                                      !.amount = inv_data.amount]
                       ELSE i : i \in tbl},
                      next, rid, existing_ids, Tail(investors_data))
             ELSE UpsertInvestors(
                      tbl \cup {[id |-> next, round |-> rid,
                                 incubator |-> inv_data.incubator_id,
                                 status |-> inv_data.status,
                                 amount |-> inv_data.amount]},
                      next + 1, rid, existing_ids, Tail(investors_data))

\* InvestmentRoundSerializer.update
RoundSerializerUpdate(db, instance, data) ==
    LET saved == [instance EXCEPT !.is_current = data.is_current]
        db1 == [db EXCEPT !.rounds = InvestmentRoundSave(@, saved)]
    IN  IF data.investors = <<>> THEN Done(db1, saved)
        ELSE LET investors_data == data.investors[1]
                 existing_ids == {i.id : i \in InvestorsOf(db1.investors, instance.id)}
                 incoming_ids == {investors_data[k].id : k \in 1..Len(investors_data)}
                                 \ {NoId}
                 to_delete_ids == existing_ids \ incoming_ids
                 kept == {i \in db1.investors : i.id \notin to_delete_ids}
                 up == UpsertInvestors(kept, db1.nextId["investor"], instance.id,
                                       existing_ids, investors_data)
             IN  Done([db1 EXCEPT !.investors = up.tbl,
                                  !.nextId["investor"] = up.next], saved)

\* RoundViewSet.update / partial_update
RoundUpdate(u, pk, data) ==
    LET found == {r \in RoundQueryset(u) : r.id = pk}
        same(status) ==
            /\ resp' = Response("round_update", u, status, <<pk, data>>, {})
            /\ UNCHANGED <<userVars, readyVars, onbVars, campVars, nextId>>
    IN  IF found = {} THEN same(HTTP_404)
        ELSE IF ~RoundIsValid(data) THEN same(HTTP_400)
        ELSE LET done == RoundSerializerUpdate(Database, CHOOSE r \in found : TRUE, data)
             IN  /\ done.db.nextId["investor"] <= MaxId + 1
                 /\ Persist(done.db)
                 /\ resp' = Response("round_update", u, HTTP_200, <<pk, data>>,
                                     {RoundRepresentation(done.db, done.row)})

\* RoundViewSet.destroy
RoundDestroy(u, pk) ==
    LET found == {r \in RoundQueryset(u) : r.id = pk}
    IN  IF found = {}
        THEN /\ resp' = Response("round_destroy", u, HTTP_404, pk, {})
             /\ UNCHANGED <<userVars, readyVars, onbVars, campVars, nextId>>
        ELSE /\ Persist(RoundDelete(Database, CHOOSE r \in found : TRUE))
             /\ resp' = Response("round_destroy", u, HTTP_204, pk, {})

(***************************************************************************)
(* SpecCampaign: two startup users create campaigns and rounds; one of     *)
(* them then sends every request of the two viewsets, with every pk, its   *)
(* own and the other user's, before and after it has a startup.            *)
(***************************************************************************)
CampaignUsers == {"s1"}
Ids == 1..MaxCampaigns
RoundIds == 1..MaxRounds

NextCampaign ==
    \/ \E u \in StartupUsers : my_campaign(u)
    \/ \E u \in CampaignUsers : CampaignList(u)
    \/ \E u \in CampaignUsers, pk \in Ids : CampaignRetrieve(u, pk)
    \/ \E u \in CampaignUsers, pk \in Ids, data \in CampaignPayloads :
           CampaignUpdate(u, pk, data)
    \/ \E u \in CampaignUsers, pk \in Ids : CampaignDestroy(u, pk)
    \/ \E u \in CampaignUsers, pk \in Ids : submit(u, pk)
    \/ \E u \in CampaignUsers, pk \in Ids, p \in Projections :
           financials(u, pk, "PATCH", p)
    \/ \E u \in CampaignUsers : RoundList(u)
    \/ \E u \in CampaignUsers, pk \in RoundIds : RoundRetrieve(u, pk)
    \/ \E u \in StartupUsers : RoundPerformCreate(u, TRUE)
    \/ \E u \in CampaignUsers, pk \in RoundIds :
           RoundUpdate(u, pk, [is_current |-> FALSE, investors |-> <<>>])
    \/ \E u \in CampaignUsers, pk \in RoundIds : RoundDestroy(u, pk)

SpecCampaign == Init /\ [][NextCampaign]_vars

(***************************************************************************)
(* Claims about campaign and round ownership (SpecCampaign).               *)
(***************************************************************************)
\* The campaigns whose startup belongs to the profile of user u.
OwnCampaignIds(u) ==
    {c.id : c \in {x \in campaigns :
                      \E s \in StartupsOfProfile(startups, u) : x.startup = s.id}}
ForeignCampaigns(u) == {c \in campaigns : c.id \notin OwnCampaignIds(u)}
ForeignFinancials(u) == {f \in cfins : f.campaign \notin OwnCampaignIds(u)}
ForeignRounds(u) == {r \in rounds : r.campaign \notin OwnCampaignIds(u)}
OwnFinancialIds(u) == {f.id : f \in cfins \ ForeignFinancials(u)}
OwnRoundIds(u) == {r.id : r \in rounds \ ForeignRounds(u)}

CampaignRowOps == {"campaign_list", "campaign_retrieve", "campaign_update",
                   "campaign_destroy", "submit"}
RoundRowOps == {"round_list", "round_retrieve", "round_update", "round_destroy"}

\* What the last request returned belongs to the requesting user.
ReturnedIsOwn ==
    /\ resp.op \in CampaignRowOps => \A c \in resp.out : c.id \in OwnCampaignIds(resp.user)
    /\ resp.op = "financials" => \A f \in resp.out : f.id \in OwnFinancialIds(resp.user)
    /\ resp.op \in RoundRowOps => \A r \in resp.out : r.id \in OwnRoundIds(resp.user)
    /\ resp.op \in CampaignRowOps \cup RoundRowOps \cup {"financials"}
       /\ OwnCampaignIds(resp.user) = {} => resp.out = {}

\* A request leaves the records of every other startup as they were.
ForeignUntouched ==
    \A u \in Users :
        resp'.user = u /\ resp'.op \in CampaignRowOps \cup RoundRowOps \cup {"financials"}
        => /\ ForeignCampaigns(u)' = ForeignCampaigns(u)
           /\ ForeignFinancials(u)' = ForeignFinancials(u)
           /\ ForeignRounds(u)' = ForeignRounds(u)

GetOrCreateUsers == {"s1", "i1"}
OnboardingBody ==
    [company_name |-> "Acme", industry |-> "fintech", TRL_level |-> <<>>,
     CRL_level |-> <<>>]

NextGetOrCreate ==
    \/ \E u \in GetOrCreateUsers : my_campaign(u)
    \/ \E u \in GetOrCreateUsers, sid \in Ids : by_startup(u, sid)
    \/ \E u \in GetOrCreateUsers, pk \in Ids, p \in Projections :
           financials(u, pk, "GET", p)
    \/ \E u \in GetOrCreateUsers : CampaignPerformCreate(u)
    \/ \E u \in GetOrCreateUsers : RoundPerformCreate(u, FALSE)
    \/ \E u \in GetOrCreateUsers : StartupOnboardingGet(u)
    \/ \E u \in GetOrCreateUsers : StartupOnboardingPost(u, OnboardingBody)
    \/ OnboardingCompletePost("s1", BasePayload, "none")
    \/ \E u \in GetOrCreateUsers : IncubatorOnboardingPost(u, "Hub")
    \/ \E u \in GetOrCreateUsers : IncubatorDataGet(u)
    \/ associate("s1", <<1>>)

SpecGetOrCreate == Init /\ [][NextGetOrCreate]_vars

(***************************************************************************)
(* Claims about implicitly created records (SpecGetOrCreate).              *)
(***************************************************************************)
AtMostOne(S) == Cardinality(S) <= 1

AtMostOneEach ==
    /\ \A u \in Users : AtMostOne(StartupsOfProfile(startups, u))
    /\ \A u \in Users : AtMostOne(IncubatorsOfProfile(incubators, u))
    /\ \A s \in startups : AtMostOne(CampaignsOfStartup(s.id))
    /\ \A c \in campaigns : AtMostOne({f \in cfins : f.campaign = c.id})

\* A record that exists before a call is still the only one of its parent
\* after the call.
ExistingStays ==
    /\ \A s \in startups : {x.id : x \in StartupsOfProfile(startups', s.profile)} = {s.id}
    /\ \A i \in incubators :
           {x.id : x \in IncubatorsOfProfile(incubators', i.profile)} = {i.id}
    /\ \A c \in campaigns : {x \in campaigns' : x.startup = c.startup} = {c}
    /\ \A f \in cfins : {x.id : x \in {y \in cfins' : y.campaign = f.campaign}} = {f.id}

\* The campaign of the startup of user u, as a set.
CampaignOfUser(u) ==
    {c \in campaigns : \E s \in StartupsOfProfile(startups, u) : c.startup = s.id}

\* A call that finds the record it would create returns that record:
\* my_campaign and by_startup the campaign, financials the financials row.
RepeatedCall ==
    /\ \A u \in Users : CampaignOfUser(u) # {} /\ resp'.user = u
                        /\ resp'.op = "my_campaign" => resp'.out = CampaignOfUser(u)
    /\ resp'.op = "by_startup" /\ resp'.status = HTTP_200
       => \A c \in campaigns : c.startup = resp'.arg => resp'.out = {c}
    /\ resp'.op = "financials" /\ resp'.status = HTTP_200
       => \A f \in cfins : f.campaign = resp'.arg[1] => {x.id : x \in resp'.out} = {f.id}

\* C7: after any sequence of calls to the endpoints that create records on
\* demand there is at most one Startup and one Incubator per Profile, one
\* Campaign per Startup and one CampaignFinancials per Campaign; a call that
\* finds the record existing leaves it the only one of its parent and
\* answers with it.
C7_AtMostOne == [](AtMostOneEach) /\ [][ExistingStays /\ RepeatedCall]_vars

\* A user who already has a campaign with financials has just posted to the
\* campaign collection again; the one-to-one constraint refused the insert.
C7_Witness ==
    /\ resp.op = "campaign_create" /\ resp.status = HTTP_500
    /\ CampaignOfUser(resp.user) # {}
    /\ \E c \in campaigns : \E f \in cfins : f.campaign = c.id
    /\ \E i \in incubators : i.profile_complete
(***************************************************************************)
(* SpecRounds: a startup user edits the rounds of their campaign and the   *)
(* investors nested in them, and reads the aggregates back.                *)
(***************************************************************************)
\* The investors a round update can send, all naming incubator 1.
AggregateInputs ==
    << [id |-> NoId, incubator_id |-> 1, status |-> CONTACTED, amount |-> 100],
       [id |-> NoId, incubator_id |-> 1, status |-> COMMITTED, amount |-> 100],
       [id |-> 1, incubator_id |-> 1, status |-> COMMITTED, amount |-> 250] >>

RECURSIVE Pick(_, _)
\* The elements of seq at the positions in S, in the order of seq.
Pick(seq, S) ==
    IF seq = <<>> THEN <<>>
    ELSE LET front == Pick(SubSeq(seq, 1, Len(seq) - 1), S)
         IN  IF Len(seq) \in S THEN Append(front, seq[Len(seq)]) ELSE front

\* Bodies that give the investors list: up to MaxList of the inputs above,
\* each at most once.
AggregatePayloads ==
    {[is_current |-> FALSE, investors |-> <<Pick(AggregateInputs, S)>>] :
        S \in {T \in SUBSET DOMAIN AggregateInputs : Cardinality(T) <= MaxList}}

NextRounds ==
    \/ my_campaign("s1")
    \/ IncubatorDataGet("i1")
    \/ RoundPerformCreate("s1", FALSE)
    \/ \E pk \in RoundIds, data \in AggregatePayloads : RoundUpdate("s1", pk, data)
    \/ \E pk \in RoundIds : RoundUpdate("s1", pk, [is_current |-> FALSE, investors |-> <<>>])
    \/ \E pk \in RoundIds : RoundRetrieve("s1", pk)
    \/ RoundList("s1")
    \/ \E pk \in RoundIds : RoundDestroy("s1", pk)
    \/ \E p \in Projections : financials("s1", 1, "GET", p)

SpecRounds == Init /\ [][NextRounds]_vars

(***************************************************************************)
(* Claims about the aggregates (SpecRounds).                               *)
(***************************************************************************)
CommittedOf(rid) == {i \in investors : i.round = rid /\ i.status = COMMITTED}

RECURSIVE SumTotals(_)
\* The sum of total_committed_amount over a set of rounds.
SumTotals(rs) ==
    IF rs = {} THEN 0
    ELSE LET r == CHOOSE x \in rs : TRUE
         IN  get_total_committed_amount(Database, r) + SumTotals(rs \ {r})

\* C10: total_committed_amount of a round is the sum of amount over exactly
\* the investors of the round whose status is COMMITTED, and
\* total_capital_injection of a campaign's financials is the sum of
\* total_committed_amount over the rounds of the campaign; both are what the
\* round and financials endpoints answer with.
C10_Aggregates ==
    /\ \A r \in rounds :
           get_total_committed_amount(Database, r) = SumAmounts(CommittedOf(r.id))
    /\ \A f \in cfins : get_total_capital_injection(f) = SumTotals(RoundsOf(f.campaign))
    /\ resp.op \in {"round_list", "round_retrieve", "round_create", "round_update"}
       => \A o \in resp.out : o.total_committed_amount = SumAmounts(CommittedOf(o.id))
    /\ resp.op = "financials"
       => \A o \in resp.out :
              \A f \in cfins : f.id = o.id
                  => o.total_capital_injection = SumTotals(RoundsOf(f.campaign))

\* The financials endpoint has answered 350 for a campaign with two rounds,
\* committed investors of 100 and 250 and an investor that is only contacted.
C10_Witness ==
    /\ resp.op = "financials" /\ resp.status = HTTP_200
    /\ \E o \in resp.out : o.total_capital_injection = 350
    /\ \E i \in investors : i.status = CONTACTED
    /\ Cardinality({i.round : i \in investors}) = 2
(***************************************************************************)
(* users/views_incubator.py: the incubator's read-only views               *)
(***************************************************************************)
\* request.user.profile.incubator raises RelatedObjectDoesNotExist for an
\* incubator user whose Incubator row was never created: the request ends 500.
IncubatorMissing(u) == HasProfile(u) /\ UserType(u) = INCUBATOR /\ ~HasIncubator(u)

\* IncubatorMemberViewSet.get_queryset
IncubatorMemberQueryset(u) ==
    IF HasProfile(u) /\ UserType(u) = INCUBATOR
    THEN {m \in members : m.incubator = IncubatorOf(u).id}
    ELSE {}

\* Mutant of IncubatorInvestmentQueryset: no filter on the incubator.
IncubatorInvestmentQuerysetAll(u) == investors

\* IncubatorInvestmentViewSet.get_queryset
IncubatorInvestmentQueryset(u) ==
    IF HasProfile(u) /\ UserType(u) = INCUBATOR
    THEN {i \in investors : i.incubator = IncubatorOf(u).id}
    ELSE {}

\* Mutant of CommitSave: every investor of the investment's round is written.
CommitSaveRound(tbl, investment) ==
    {IF i.round = investment.round THEN [i EXCEPT !.status = COMMITTED] ELSE i
     : i \in tbl}

\* investment.status = COMMITTED; investment.save()
CommitSave(tbl, investment) ==
    {IF i.id = investment.id THEN [i EXCEPT !.status = COMMITTED] ELSE i : i \in tbl}

\* IncubatorInvestmentViewSet.commit
commit(u, pk) ==
    LET same(status) ==
            /\ resp' = Response("commit", u, status, pk, {})
            /\ UNCHANGED <<userVars, readyVars, onbVars, campVars, nextId>>
    IN  IF IncubatorMissing(u) THEN same(HTTP_500)
        ELSE IF ~\E i \in IncubatorInvestmentQueryset(u) : i.id = pk
        THEN same(HTTP_404)
        ELSE LET investment == CHOOSE i \in IncubatorInvestmentQueryset(u) : i.id = pk
                 saved == [investment EXCEPT !.status = COMMITTED]
             IN  IF investment.incubator # IncubatorOf(u).id THEN same(HTTP_403)
                 ELSE /\ investors' = CommitSave(investors, investment)
                      /\ resp' = Response("commit", u, HTTP_200, pk, {saved})
                      /\ UNCHANGED <<userVars, readyVars, onbVars, campaigns, cfins,
                                     rounds, nextId>>

\* PortfolioReadinessLevelViewSet.get_queryset
PortfolioReadinessLevelQueryset(u) ==
    IF HasProfile(u) /\ UserType(u) = INCUBATOR
    THEN {l \in rlevels : l.startup \in PortfolioIds(IncubatorOf(u).id)}
    ELSE {}

\* The list action of a viewset whose get_queryset reads profile.incubator
ListView(op, u, queryset) ==
    /\ IF IncubatorMissing(u)
       THEN resp' = Response(op, u, HTTP_500, <<>>, {})
       ELSE resp' = Response(op, u, HTTP_200, <<>>, queryset)
    /\ UNCHANGED <<userVars, readyVars, onbVars, campVars, nextId>>

\* IncubatorMemberViewSet.list
IncubatorMemberList(u) ==
    ListView("member_list", u, IF IncubatorMissing(u) THEN {} ELSE IncubatorMemberQueryset(u))

\* IncubatorInvestmentViewSet.list
IncubatorInvestmentList(u) ==
    ListView("investment_list", u,
             IF IncubatorMissing(u) THEN {} ELSE IncubatorInvestmentQueryset(u))

\* PortfolioEvidenceViewSet.list
PortfolioEvidenceList(u) ==
    ListView("portfolio_evidence_list", u,
             IF IncubatorMissing(u) THEN {} ELSE PortfolioEvidenceQueryset(u))

\* PortfolioReadinessLevelViewSet.list
PortfolioReadinessLevelList(u) ==
    ListView("portfolio_level_list", u,
             IF IncubatorMissing(u) THEN {} ELSE PortfolioReadinessLevelQueryset(u))

MemberNames == {"Ana"}

\* IncubatorMemberViewSet.create with perform_create
IncubatorMemberCreate(u, name) ==
    LET refuse(status) ==
            /\ resp' = Response("member_create", u, status, name, {})
            /\ UNCHANGED <<userVars, readyVars, onbVars, campVars, nextId>>
    IN  IF ~HasProfile(u) THEN refuse(HTTP_500)
        ELSE IF UserType(u) # INCUBATOR THEN refuse(HTTP_400)
        ELSE IF ~HasIncubator(u) THEN refuse(HTTP_500)
        ELSE LET m == [id |-> nextId["member"], incubator |-> IncubatorOf(u).id,
                       name |-> name]
             IN  /\ nextId["member"] <= MaxMembers
                 /\ members' = members \cup {m}
                 /\ nextId' = [nextId EXCEPT !["member"] = @ + 1]
                 /\ resp' = Response("member_create", u, HTTP_201, name, {m})
                 /\ UNCHANGED <<startups, assoc, incubators, readyVars, onbVars, campVars>>

\* ReadinessLevelViewSet (route startup/readiness-levels), create: the
\* startup user adds a level row to their own startup; (startup, type, level)
\* is unique.
ReadinessLevelCreate(u, type, level) ==
    /\ HasStartup(u)
    /\ validate_type(type) /\ validate_level(level)
    /\ nextId["rlevel"] <= MaxLevels
    /\ ~\E l \in rlevels : l.startup = StartupOf(u).id /\ l.type = type /\ l.level = level
    /\ LET l == [id |-> nextId["rlevel"], startup |-> StartupOf(u).id,
                 type |-> type, level |-> level]
       IN  /\ rlevels' = rlevels \cup {l}
           /\ nextId' = [nextId EXCEPT !["rlevel"] = @ + 1]
           /\ resp' = Response("level_create", u, HTTP_201, <<type, level>>, {l})
    /\ UNCHANGED <<userVars, evidences, onbVars, campVars>>

\* IncubatorViewSet.startups: get_object() reads Incubator.objects.all()
IncubatorStartups(u, pk) ==
    /\ UNCHANGED <<userVars, readyVars, onbVars, campVars, nextId>>
    /\ IF ~\E i \in incubators : i.id = pk
       THEN resp' = Response("startups", u, HTTP_404, pk, {})
       ELSE IF ~HasProfile(u) \/ IncubatorMissing(u)
       THEN resp' = Response("startups", u, HTTP_500, pk, {})
       ELSE IF UserType(u) = INCUBATOR /\ IncubatorOf(u).id # pk
       THEN resp' = Response("startups", u, HTTP_403, pk, {})
       ELSE resp' = Response("startups", u, HTTP_200, pk,
                             {s \in startups : s.id \in PortfolioIds(pk)})
(***************************************************************************)
(* SpecIncubator: two incubators, a startup that associates with either,   *)
(* its evidence, readiness levels and investors, and every user listing    *)
(* the incubator views.                                                    *)
(***************************************************************************)
PortfolioUsers == {"i1", "i2", "s1"}

\* Round updates that leave one investor of each incubator in the round.
PortfolioRoundPayloads ==
    {d \in RoundPayloads :
        /\ ~d.is_current /\ d.investors # <<>> /\ Len(d.investors[1]) = 2
        /\ d.investors[1][1].id = NoId /\ d.investors[1][1].status = CONTACTED
        /\ d.investors[1][2].id = 2}

NextIncubator ==
    \/ \E u \in IncubatorUsers : IncubatorDataGet(u)
    \/ StartupOnboardingGet("s1")
    \/ \E ids \in AssociateInputs : associate("s1", ids)
    \/ EvidenceCreate("s1", [type |-> TRL, level |-> 1], MaxSeed)
    \/ ReadinessLevelCreate("s1", TRL, 1)
    \/ \E u \in PortfolioUsers, name \in MemberNames : IncubatorMemberCreate(u, name)
    \/ RoundPerformCreate("s1", FALSE)
    \/ \E data \in PortfolioRoundPayloads : RoundUpdate("s1", 1, data)
    \/ \E u \in PortfolioUsers : IncubatorMemberList(u)
    \/ \E u \in PortfolioUsers : IncubatorInvestmentList(u)
    \/ \E u \in PortfolioUsers : PortfolioEvidenceList(u)
    \/ \E u \in PortfolioUsers : PortfolioReadinessLevelList(u)
    \/ \E u \in PortfolioUsers, pk \in 1..2 : IncubatorStartups(u, pk)

SpecIncubator == Init /\ [][NextIncubator]_vars

(***************************************************************************)
(* Claims about the incubator views (SpecIncubator).                       *)
(***************************************************************************)
\* The incubators whose profile is the profile of user u.
OwnIncubatorIds(u) == {i.id : i \in IncubatorsOfProfile(incubators, u)}
IsIncubatorUser(u) == HasProfile(u) /\ UserType(u) = INCUBATOR
\* The startups currently associated with an incubator of user u.
OwnPortfolio(u) == {p[1] : p \in {q \in assoc : q[2] \in OwnIncubatorIds(u)}}

IncubatorListOps ==
    {"member_list", "investment_list", "portfolio_evidence_list", "portfolio_level_list"}

\* C5: the four incubator viewsets return to an incubator user only the
\* members and investments of their own incubator and only the evidences and
\* readiness levels of startups currently associated with it, and return an
\* empty set to every user that is not an incubator user.
C5_OwnIncubatorOnly ==
    /\ resp.op \in {"member_list", "investment_list"}
       => \A r \in resp.out : r.incubator \in OwnIncubatorIds(resp.user)
    /\ resp.op \in {"portfolio_evidence_list", "portfolio_level_list"}
       => \A r \in resp.out : r.startup \in OwnPortfolio(resp.user)
    /\ resp.op \in IncubatorListOps /\ ~IsIncubatorUser(resp.user) => resp.out = {}

\* An incubator user has listed their investments and was returned some but
\* not all investors, while the other incubator has a member and the startup
\* has evidence and a readiness level.
C5_Witness ==
    /\ resp.op = "investment_list" /\ resp.status = HTTP_200
    /\ resp.out # {} /\ investors \ resp.out # {}
    /\ \E m \in members : m.incubator \notin OwnIncubatorIds(resp.user)
    /\ evidences # {} /\ rlevels # {} /\ assoc # {}

HasMatchingEvidence(data) ==
    /\ \E i \in DOMAIN data.evidences :
           data.evidences[i].type = TRL /\ data.evidences[i].level = data.current_trl
    /\ data.current_crl # <<>>
           => \E i \in DOMAIN data.evidences :
                  /\ data.evidences[i].type = CRL
                  /\ data.evidences[i].level = data.current_crl[1]

\* C11: validate accepts a payload (whose fields are valid) exactly when its
\* evidences hold a TRL evidence whose level equals current_trl and, if
\* current_crl is given, a CRL evidence whose level equals current_crl.
C11_ValidateMatches ==
    (resp.op = "wizard" /\ resp.arg # <<>> /\ WizardFieldsValid(resp.arg))
        => (resp.out.validated <=> HasMatchingEvidence(resp.arg))

(***************************************************************************)
(* Claims about Startup.update_maturity_levels (SpecReview).               *)
(***************************************************************************)
ApprovedLevels(sid, type_code) ==
    {e.level : e \in {x \in evidences : /\ x.startup = sid /\ x.type = type_code
                                         /\ x.status = APPROVED}}

\* The largest n such that every level 1..n has an approved evidence.
HighestConsecutive(sid, type_code) ==
    CHOOSE n \in 0..MaxLevel :
        /\ \A k \in 1..n : k \in ApprovedLevels(sid, type_code)
        /\ (n + 1) \notin ApprovedLevels(sid, type_code)

\* C12: a call of update_maturity_levels leaves TRL_level (CRL_level) at the
\* largest n such that every level 1..n has an APPROVED evidence of the
\* type; it changes no other field of the startup and no other row.
C12_HighestConsecutive ==
    [][resp'.op = "update_maturity_levels"
        => LET sid == resp'.arg
               old == CHOOSE r \in startups : r.id = sid
               new == CHOOSE r \in startups' : r.id = sid
           IN  /\ new.TRL_level = HighestConsecutive(sid, TRL)
               /\ new.CRL_level = HighestConsecutive(sid, CRL)
               /\ new = [old EXCEPT !.TRL_level = new.TRL_level,
                                    !.CRL_level = new.CRL_level]
               /\ startups' \ {new} = startups \ {old}
               /\ UNCHANGED <<assoc, incubators, members, readyVars, onbVars,
                              campVars, nextId>>]_vars

\* update_maturity_levels has answered TRL 1 for a startup whose TRL
\* evidence of level 1 is approved and whose TRL evidence of level 2 is not.
C12_Witness ==
    /\ resp.op = "update_maturity_levels"
    /\ resp.out.TRL_level = 1
    /\ resp.out \in startups
    /\ \E e \in evidences : /\ e.startup = resp.out.id /\ e.type = TRL
                            /\ e.level = 2 /\ e.status # APPROVED

(***************************************************************************)
(* Claims about PortfolioEvidenceViewSet.review (SpecReview).              *)
(***************************************************************************)
\* User u is an incubator whose portfolio holds the startup of evidence pk.
ReviewerOf(u, pk) ==
    /\ UserType(u) = INCUBATOR /\ HasIncubator(u)
    /\ \E e \in evidences : e.id = pk /\ e.startup \in PortfolioIds(IncubatorOf(u).id)

\* The level a review leaves: the evidence's level when the review approves
\* an evidence of this type above the current level, the current level otherwise.
LevelAfterReview(current, e, data, type_code) ==
    IF data.status = APPROVED /\ e.type = type_code /\ e.level > current
    THEN e.level ELSE current

\* C13: a review by an incubator whose portfolio holds the evidence's
\* startup, with a valid payload, stores the submitted status and
\* reviewer_notes in the evidence and raises the startup's level of the
\* evidence's type to the evidence's level when the status is APPROVED and
\* the level is higher; every other review, and every other case, leaves
\* TRL_level and CRL_level (and the evidence) as they were.
C13_ReviewRaisesOnly ==
    [][resp'.op = "review"
        => LET u == resp'.user
               pk == resp'.arg[1]
               data == resp'.arg[2]
               served == /\ ReviewerOf(u, pk)
                         /\ data.status \in {PENDING, APPROVED, REJECTED}
           IN  /\ served <=> resp'.status = HTTP_200
               /\ ~served => startups' = startups /\ evidences' = evidences
               /\ served =>
                     LET e == CHOOSE x \in evidences : x.id = pk
                         e2 == CHOOSE x \in evidences' : x.id = pk
                         s == CHOOSE x \in startups : x.id = e.startup
                         s2 == CHOOSE x \in startups' : x.id = e.startup
                     IN  /\ e2.status = data.status
                         /\ data.reviewer_notes # <<>>
                                => e2.reviewer_notes = data.reviewer_notes[1]
                         /\ e2 = [e EXCEPT !.status = e2.status,
                                           !.reviewer_notes = e2.reviewer_notes]
                         /\ evidences' \ {e2} = evidences \ {e}
                         /\ s2 = [s EXCEPT
                                    !.TRL_level = LevelAfterReview(s.TRL_level, e, data, TRL),
                                    !.CRL_level = LevelAfterReview(s.CRL_level, e, data, CRL)]
                         /\ startups' \ {s2} = startups \ {s}]_vars

\* An approving review with notes has raised the startup's TRL_level to the
\* level of the reviewed evidence.
C13_Witness ==
    /\ resp.op = "review" /\ resp.status = HTTP_200
    /\ resp.arg[2] = [status |-> APPROVED, reviewer_notes |-> <<"ok">>]
    /\ resp.out.type = TRL /\ resp.out.level = 2 /\ resp.out.reviewer_notes = "ok"
    /\ \E s \in startups : s.id = resp.out.startup /\ s.TRL_level = 2

(***************************************************************************)
(* Claims about the campaign's status (SpecCampaign).                      *)
(***************************************************************************)
\* C14: a submit of the user's own campaign turns DRAFT into SUBMITTED and
\* answers 200; on a campaign that is not DRAFT it answers 400 and changes
\* nothing; and no request takes a SUBMITTED campaign back to another status.
C14_SubmitOnce ==
    [][/\ \A c \in campaigns : c.status = SUBMITTED
              => \A c2 \in campaigns' : c2.id = c.id => c2.status = SUBMITTED
       /\ (resp'.op = "submit" /\ resp'.arg \in OwnCampaignIds(resp'.user))
              => LET c == CHOOSE x \in campaigns : x.id = resp'.arg
                 IN  IF c.status = DRAFT
                     THEN /\ resp'.status = HTTP_200
                          /\ campaigns' = (campaigns \ {c})
                                           \cup {[c EXCEPT !.status = SUBMITTED]}
                     ELSE /\ resp'.status = HTTP_400
                          /\ campaigns' = campaigns]_vars

\* A second submit of a submitted campaign has been answered 400, after an
\* update of that campaign.
C14_Witness ==
    /\ resp.op = "submit" /\ resp.status = HTTP_400
    /\ \E c \in campaigns :
           c.id = resp.arg /\ c.status = SUBMITTED /\ c.problem \in ProblemTexts

(***************************************************************************)
(* SpecAssociate: startup users choose their incubators, with lists that   *)
(* name existing and missing incubators, once or twice.                    *)
(***************************************************************************)
IncubatorIdLists == SeqsUpTo(1..(Cardinality(IncubatorUsers) + 1), MaxList)

NextAssociate ==
    \/ \E u \in StartupUsers : StartupOnboardingGet(u)
    \/ \E u \in IncubatorUsers : IncubatorDataGet(u)
    \/ \E u \in StartupUsers \cup {"i1", "anon"}, ids \in IncubatorIdLists :
           associate(u, ids)

SpecAssociate == Init /\ [][NextAssociate]_vars

\* C15: for a startup user with a startup, associate answers 200 and leaves
\* the startup associated with exactly the incubators named in
\* incubator_ids whenever every id names an existing incubator, and answers
\* 400 and changes nothing exactly when some id names no incubator.
C15_AssociateReplaces ==
    [][(resp'.op = "associate" /\ HasStartup(resp'.user))
        => LET ids == resp'.arg
               sid == StartupOf(resp'.user).id
               all_exist == \A k \in DOMAIN ids : \E i \in incubators : i.id = ids[k]
           IN  IF all_exist
               THEN /\ resp'.status = HTTP_200
                    /\ assoc' = {p \in assoc : p[1] # sid}
                                 \cup {<<sid, ids[k]>> : k \in DOMAIN ids}
               ELSE /\ resp'.status = HTTP_400
                    /\ assoc' = assoc]_vars

(***************************************************************************)
(* users/services.py: create_round_with_incubators                         *)
(***************************************************************************)
\* One entry of incubator_commits; either key may be missing.
CommitInputs ==
    {[incubator_id |-> <<1>>, amount |-> <<100>>],
     [incubator_id |-> <<3>>, amount |-> <<250>>],
     [incubator_id |-> <<>>, amount |-> <<100>>],
     [incubator_id |-> <<1>>, amount |-> <<>>],
     [incubator_id |-> <<1>>, amount |-> <<0>>]}

\* "not commit.get(key)": the key is missing, None or 0.
IsFalsy(value) == value = <<>> \/ value[1] = 0

\* f"Incubator {incubator_id}"
IncubatorLabel(incubator_id) ==
    IF incubator_id = 1 THEN "Incubator 1"
    ELSE IF incubator_id = 2 THEN "Incubator 2" ELSE "Incubator 3"

RECURSIVE ProcessCommits(_, _, _, _, _)
\* The loop over incubator_commits: db after it and incubator_ids_to_associate.
ProcessCommits(db, sid, rid, commits, ids) ==
    IF commits = <<>> THEN [db |-> db, ids |-> ids]
    ELSE LET entry == Head(commits)
         IN  IF IsFalsy(entry.incubator_id) \/ IsFalsy(entry.amount)
             THEN ProcessCommits(db, sid, rid, Tail(commits), ids)
             ELSE LET p == [id |-> db.nextId["pipeline"], startup |-> sid,
                            investor_name |-> IncubatorLabel(entry.incubator_id[1]),
                            stage |-> COMMITTED, round |-> rid,
                            ticket_size |-> entry.amount]
                  IN  ProcessCommits(
                          [db EXCEPT !.pipeline = @ \cup {p},
                                     !.nextId["pipeline"] = @ + 1],
                          sid, rid, Tail(commits),
                          Append(ids, entry.incubator_id[1]))

\* Mutant of IncubatorsAdd: startup.incubators.set(...), which replaces.
IncubatorsSet(tbl, sid, ids) == {p \in tbl : p[1] # sid} \cup {<<sid, i>> : i \in ids}

\* startup.incubators.add(*valid_incubators)
IncubatorsAdd(tbl, sid, ids) == tbl \cup {<<sid, i>> : i \in ids}

\* Steps of create_round_with_incubators at which the database may fail.
ServiceFaults == {"none", "round", "investor", "associate"}

\* The block under "with transaction.atomic()".
CreateRoundBody(db, sid, commits, fault) ==
    LET new_round == [id |-> db.nextId["fundround"], startup |-> sid, is_open |-> TRUE]
        db1 == [db EXCEPT !.fundrounds = @ \cup {new_round},
                          !.nextId["fundround"] = @ + 1]
        loop == ProcessCommits(db1, sid, new_round.id, commits, <<>>)
        valid_incubators == {i.id : i \in {x \in db.incubators : x.id \in Range(loop.ids)}}
        db3 == [loop.db EXCEPT !.assoc = IncubatorsAdd(@, sid, valid_incubators)]
    IN  IF fault = "round" THEN Raised(db, "round")
        ELSE IF fault = "investor" /\ loop.ids # <<>> THEN Raised(loop.db, "investor")
        ELSE IF fault = "associate" /\ loop.ids # <<>> THEN Raised(loop.db, "associate")
        ELSE Done(db3, new_round)

create_round_with_incubators(db, sid, commits, fault) ==
    Atomic(db, CreateRoundBody(db, sid, commits, fault))

\* A call of create_round_with_incubators for the startup with id sid.
CreateRoundWithIncubators(sid, commits, fault) ==
    /\ \E s \in startups : s.id = sid
    /\ nextId["fundround"] <= MaxRounds
    /\ nextId["pipeline"] + Len(commits) <= MaxId + 1
    /\ LET res == create_round_with_incubators(Database, sid, commits, fault)
       IN  /\ Persist(res.db)
           /\ resp' = Response("create_round_with_incubators", "anon", 0,
                               <<sid, commits>>,
                               [ok |-> res.ok, failed_at |-> res.failed_at,
                                round |-> res.row])

(***************************************************************************)
(* SpecService: a startup that may already be associated with incubators   *)
(* opens fundraising rounds with lists of incubator commitments.           *)
(***************************************************************************)
NextService ==
    \/ StartupOnboardingGet("s1")
    \/ \E u \in IncubatorUsers : IncubatorDataGet(u)
    \/ \E ids \in {<<1>>, <<2>>} : associate("s1", ids)
    \/ \E commits \in SeqsUpTo(CommitInputs, MaxList) :
           CreateRoundWithIncubators(1, commits, "none")
    \/ \E entry \in CommitInputs, fault \in ServiceFaults :
           CreateRoundWithIncubators(1, <<entry>>, fault)

SpecService == Init /\ [][NextService]_vars

(***************************************************************************)
(* Claims about create_round_with_incubators (SpecService).                *)
(***************************************************************************)
HasKeys(entry) == entry.incubator_id # <<>> /\ entry.amount # <<>>
HasValues(entry) ==
    /\ HasKeys(entry) /\ entry.incubator_id[1] # 0 /\ entry.amount[1] # 0

\* What a call must have done when the commits that count are those
\* satisfying Counts: one new round of the startup; one new COMMITTED entry
\* per counted commit, linked to the round, with ticket_size the amount; the
\* existing committing incubators added to the associations, none removed;
\* and nothing at all when the call failed.
ServiceDoes(Counts(_)) ==
    resp'.op = "create_round_with_incubators"
        => LET sid == resp'.arg[1]
               commits == resp'.arg[2]
               counted == {k \in DOMAIN commits : Counts(commits[k])}
               new_rounds == fundrounds' \ fundrounds
               new_entries == pipeline' \ pipeline
               committing == {i \in incubators :
                                 \E k \in counted : commits[k].incubator_id[1] = i.id}
           IN  IF resp'.out.ok
               THEN /\ fundrounds \subseteq fundrounds'
                    /\ new_rounds = {resp'.out.round}
                    /\ resp'.out.round.startup = sid
                    /\ pipeline \subseteq pipeline'
                    /\ Cardinality(new_entries) = Cardinality(counted)
                    /\ \A p \in new_entries :
                           /\ p.startup = sid /\ p.stage = COMMITTED
                           /\ p.round = resp'.out.round.id
                           /\ \E k \in counted : p.ticket_size = commits[k].amount
                    /\ \A k \in counted :
                           \E p \in new_entries : p.ticket_size = commits[k].amount
                    /\ assoc' = assoc \cup {<<sid, i.id>> : i \in committing}
               ELSE /\ fundrounds' = fundrounds
                    /\ pipeline' = pipeline
                    /\ assoc' = assoc

\* C16 as stated: the commits that count are those that have both keys.
C16_RoundWithCommits == [][ServiceDoes(HasKeys)]_vars

\* C16 amended: the commits that count are those whose incubator_id and
\* amount are both present and not 0; a commit with amount 0 is skipped.
C16_RoundWithNonZeroCommits == [][ServiceDoes(HasValues)]_vars

\* A call has created a round with two committed entries, one for an
\* incubator that does not exist, for a startup that keeps an earlier
\* association with another incubator.
C16_Witness ==
    /\ resp.op = "create_round_with_incubators" /\ resp.out.ok
    /\ Cardinality({p \in pipeline : p.round = resp.out.round.id}) = 2
    /\ \E p \in pipeline : p.round = resp.out.round.id /\ p.ticket_size = <<250>>
    /\ <<1, 1>> \in assoc /\ <<1, 2>> \in assoc
    /\ ~\E c \in Range(resp.arg[2]) : c.incubator_id = <<2>>

(***************************************************************************)
(* Claims about payloads the wizard rejects (SpecWizard).                  *)
(***************************************************************************)
HasDuplicatePeriod(data) ==
    \E i, j \in DOMAIN data.financial_data :
        i # j /\ data.financial_data[i] = data.financial_data[j]

\* C17: a wizard payload with no financial_data, with two financial_data
\* entries of the same period_date, or with no investors is rejected by
\* validation; and a request whose payload validation rejects is answered
\* with an error and deletes, creates and updates no Evidence,
\* FinancialInput, InvestorPipeline, Campaign or CampaignFinancials record
\* and changes no existing Startup row.
C17_RejectedChangesNothing ==
    [][(resp'.op = "wizard" /\ resp'.out.failed_at # "permission")
        => LET data == resp'.arg
           IN  /\ (\/ data.financial_data = <<>>
                    \/ HasDuplicatePeriod(data)
                    \/ data.investors = <<>>) => ~resp'.out.validated
               /\ ~resp'.out.validated
                      => /\ resp'.status >= HTTP_400
                         /\ evidences' = evidences
                         /\ finputs' = finputs
                         /\ pipeline' = pipeline
                         /\ campaigns' = campaigns
                         /\ cfins' = cfins
                         /\ startups \subseteq startups']_vars

\* The wizard has rejected a payload with two entries for one period, sent
\* by a startup that owns evidence.
C17_Witness ==
    /\ resp.op = "wizard" /\ resp.out.failed_at = "validation"
    /\ Len(resp.arg.financial_data) > 1 /\ HasDuplicatePeriod(resp.arg)
    /\ EvidencesOf(resp.out.startup) # {}

(***************************************************************************)
(* SpecCommit: a startup lists investors of two incubators in its round;   *)
(* the incubator users and the startup user send commit requests.          *)
(***************************************************************************)
NextCommit ==
    \/ \E u \in IncubatorUsers : IncubatorDataGet(u)
    \/ my_campaign("s1")
    \/ RoundPerformCreate("s1", FALSE)
    \/ \E pk \in RoundIds, data \in PortfolioRoundPayloads : RoundUpdate("s1", pk, data)
    \/ \E u \in PortfolioUsers : IncubatorInvestmentList(u)
    \/ \E u \in PortfolioUsers, pk \in 1..MaxId : commit(u, pk)

SpecCommit == Init /\ [][NextCommit]_vars

(***************************************************************************)
(* Claims about IncubatorInvestmentViewSet.commit (SpecCommit).            *)
(***************************************************************************)
\* C18: a commit request sets the status of the Investor record pk to
\* COMMITTED when the record's incubator is the requesting user's incubator
\* and changes nothing else of it; a commit of any other record, or by any
\* other user, is refused and leaves every Investor record unchanged.
C18_CommitOwnOnly ==
    [][resp'.op = "commit"
        => LET u == resp'.user
               pk == resp'.arg
               own == {i \in investors :
                          /\ i.id = pk /\ IsIncubatorUser(u) /\ HasIncubator(u)
                          /\ i.incubator = IncubatorOf(u).id}
           IN  IF own # {}
               THEN /\ resp'.status = HTTP_200
                    /\ investors' = (investors \ own)
                           \cup {[i EXCEPT !.status = COMMITTED] : i \in own}
               ELSE /\ resp'.status \in {HTTP_403, HTTP_404, HTTP_500}
                    /\ investors' = investors]_vars

\* An incubator has committed its investment in a round in which another
\* incubator's investment is still only contacted.
C18_Witness ==
    /\ resp.op = "commit" /\ resp.status = HTTP_200
    /\ \E i, j \in investors :
           /\ i.id = resp.arg /\ i.status = COMMITTED
           /\ j.round = i.round /\ j.incubator # i.incubator /\ j.status = CONTACTED

(***************************************************************************)
(* users/views_incubator.py: ChallengeViewSet                              *)
(***************************************************************************)
\* self.request.user.profile, and profile.incubator for an incubator user,
\* raise when the row is missing: the request ends 500.
ChallengeQuerysetRaises(u) == ~HasProfile(u) \/ IncubatorMissing(u)

\* Mutant of ChallengeQueryset: no filter.
ChallengeQuerysetAll(u) == challenges

\* ChallengeViewSet.get_queryset
ChallengeQueryset(u) ==
    IF UserType(u) = INCUBATOR
    THEN {c \in challenges : c.incubator = IncubatorOf(u).id}
    ELSE {c \in challenges : c.status = OPEN}

\* ChallengeViewSet.list
ChallengeList(u) ==
    /\ resp' = IF ChallengeQuerysetRaises(u)
               THEN Response("challenge_list", u, HTTP_500, <<>>, {})
               ELSE Response("challenge_list", u, HTTP_200, <<>>, ChallengeQueryset(u))
    /\ UNCHANGED <<userVars, readyVars, onbVars, campVars, nextId>>

\* ChallengeViewSet.retrieve
ChallengeRetrieve(u, pk) ==
    /\ resp' = IF ChallengeQuerysetRaises(u)
               THEN Response("challenge_retrieve", u, HTTP_500, pk, {})
               ELSE LET found == {c \in ChallengeQueryset(u) : c.id = pk}
                    IN  Response("challenge_retrieve", u,
                                 IF found = {} THEN HTTP_404 ELSE HTTP_200, pk, found)
    /\ UNCHANGED <<userVars, readyVars, onbVars, campVars, nextId>>

\* ChallengeViewSet.create with perform_create
ChallengePerformCreate(u) ==
    LET same(status) ==
            /\ resp' = Response("challenge_create", u, status, <<>>, {})
            /\ UNCHANGED <<userVars, readyVars, onbVars, campVars, nextId>>
        c == [id |-> nextId["challenge"], incubator |-> IncubatorOf(u).id,
              status |-> OPEN]
    IN  IF ChallengeQuerysetRaises(u) THEN same(HTTP_500)
        ELSE IF UserType(u) # INCUBATOR THEN same(HTTP_400)
        ELSE /\ nextId["challenge"] <= MaxChallenges
             /\ challenges' = challenges \cup {c}
             /\ nextId' = [nextId EXCEPT !["challenge"] = @ + 1]
             /\ resp' = Response("challenge_create", u, HTTP_201, <<>>, {c})
             /\ UNCHANGED <<userVars, readyVars, finputs, pipeline, fundrounds, txns, campVars>>

\* ChallengeViewSet.update / partial_update: status is a writable field of
\* ChallengeSerializer
ChallengeUpdate(u, pk, status) ==
    LET same(code) ==
            /\ resp' = Response("challenge_update", u, code, pk, {})
            /\ UNCHANGED <<userVars, readyVars, onbVars, campVars, nextId>>
        found == {c \in ChallengeQueryset(u) : c.id = pk}
    IN  IF ChallengeQuerysetRaises(u) THEN same(HTTP_500)
        ELSE IF found = {} THEN same(HTTP_404)
        ELSE LET saved == {[c EXCEPT !.status = status] : c \in found}
             IN  /\ challenges' = (challenges \ found) \cup saved
                 /\ resp' = Response("challenge_update", u, HTTP_200, pk, saved)
                 /\ UNCHANGED <<userVars, readyVars, finputs, pipeline, fundrounds, txns,
                                campVars, nextId>>

\* ChallengeViewSet.close
close(u, pk) ==
    LET same(code) ==
            /\ resp' = Response("close", u, code, pk, {})
            /\ UNCHANGED <<userVars, readyVars, onbVars, campVars, nextId>>
        found == {c \in ChallengeQueryset(u) : c.id = pk}
    IN  IF ChallengeQuerysetRaises(u) THEN same(HTTP_500)
        ELSE IF found = {} THEN same(HTTP_404)
        \* request.user.profile.incubator raises for a startup user
        ELSE IF ~HasIncubator(u) THEN same(HTTP_500)
        ELSE IF \E c \in found : c.incubator # IncubatorOf(u).id THEN same(HTTP_403)
        ELSE /\ challenges' = (challenges \ found)
                               \cup {[c EXCEPT !.status = CONCLUDED] : c \in found}
             /\ resp' = Response("close", u, HTTP_200, pk, {})
             /\ UNCHANGED <<userVars, readyVars, finputs, pipeline, fundrounds, txns,
                            campVars, nextId>>

(***************************************************************************)
(* SpecChallenge: two incubators launch, edit and close challenges; a      *)
(* startup user and a user without profile send the same requests.         *)
(***************************************************************************)
ChallengeUsers == IncubatorUsers \cup {"s1", "anon"}
ChallengeIds == 1..MaxChallenges

NextChallenge ==
    \/ \E u \in IncubatorUsers : IncubatorDataGet(u)
    \/ \E u \in ChallengeUsers : ChallengePerformCreate(u)
    \/ \E u \in ChallengeUsers : ChallengeList(u)
    \/ \E u \in ChallengeUsers, pk \in ChallengeIds : ChallengeRetrieve(u, pk)
    \/ \E u \in ChallengeUsers, pk \in ChallengeIds, status \in {OPEN, CONCLUDED} :
           ChallengeUpdate(u, pk, status)
    \/ \E u \in ChallengeUsers, pk \in ChallengeIds : close(u, pk)

SpecChallenge == Init /\ [][NextChallenge]_vars

(***************************************************************************)
(* Claims about challenges (SpecChallenge).                                *)
(***************************************************************************)
\* What list and retrieve answer: to a startup user, challenges that are
\* OPEN, and in a list all of them; to an incubator user, challenges of
\* their own incubator.
ChallengesSeen ==
    (resp.op \in {"challenge_list", "challenge_retrieve"} /\ resp.status = HTTP_200)
        => /\ resp.out \subseteq challenges
           /\ IF IsIncubatorUser(resp.user)
              THEN \A c \in resp.out : c.incubator \in OwnIncubatorIds(resp.user)
              ELSE /\ \A c \in resp.out : c.status = OPEN
                   /\ resp.op = "challenge_list"
                          => resp.out = {c \in challenges : c.status = OPEN}

\* A close request by the incubator user owning challenge pk concludes it;
\* any other close request changes no challenge.
CloseByOwner ==
    resp'.op = "close"
        => LET owned == {c \in challenges :
                            /\ c.id = resp'.arg /\ IsIncubatorUser(resp'.user)
                            /\ c.incubator \in OwnIncubatorIds(resp'.user)}
           IN  IF owned # {}
               THEN /\ resp'.status = HTTP_200
                    /\ challenges' = (challenges \ owned)
                           \cup {[c EXCEPT !.status = CONCLUDED] : c \in owned}
               ELSE /\ resp'.status # HTTP_200
                    /\ challenges' = challenges

\* C19: a startup user sees only OPEN challenges and an incubator user only
\* those of their own incubator; close concludes a challenge only for the
\* incubator that owns it and changes nothing for anyone else; a concluded
\* challenge is in no startup user's list.
C19_ChallengeVisibility == [](ChallengesSeen) /\ [][CloseByOwner]_vars

\* A startup user's list has come back with an open challenge while a
\* concluded challenge exists.
C19_Witness ==
    /\ resp.op = "challenge_list" /\ resp.user \in StartupUsers
    /\ resp.status = HTTP_200 /\ resp.out # {}
    /\ \E c \in challenges : c.status = CONCLUDED

(***************************************************************************)
(* Claims about InvestmentRoundSerializer.update (SpecRounds).             *)
(***************************************************************************)
\* Investor row i carries the values of entry e.
CarriesEntry(i, e) ==
    i.incubator = e.incubator_id /\ i.status = e.status /\ i.amount = e.amount

\* C20: a round update that gives an investors list deletes the round's
\* investors whose id is not in the list, updates in place those whose id
\* is in it, and creates a new investor of the round for every entry whose
\* id is absent or is not the id of an investor of this round; an update
\* that omits investors leaves the round's investors as they were; the
\* investors of other rounds are never changed.
C20_InvestorsMatchList ==
    [][(resp'.op = "round_update" /\ resp'.status = HTTP_200)
        => LET pk == resp'.arg[1]
               data == resp'.arg[2]
               old == {i \in investors : i.round = pk}
               new == {i \in investors' : i.round = pk}
               old_ids == {i.id : i \in old}
           IN  /\ {i \in investors' : i.round # pk} = {i \in investors : i.round # pk}
               /\ IF data.investors = <<>> THEN new = old
                  ELSE LET list == data.investors[1]
                           updates == {k \in DOMAIN list : list[k].id \in old_ids}
                           creates == DOMAIN list \ updates
                           created == {i \in new : i.id \notin old_ids}
                       IN  /\ {i.id : i \in new \ created} = {list[k].id : k \in updates}
                           /\ \A k \in updates : \E i \in new :
                                  i.id = list[k].id /\ CarriesEntry(i, list[k])
                           /\ \A i \in created : i.id \notin {x.id : x \in investors}
                           /\ Cardinality(created) = Cardinality(creates)
                           /\ \A k \in creates : \E i \in created : CarriesEntry(i, list[k])
                           /\ \A i \in created : \E k \in creates : CarriesEntry(i, list[k])]_vars

\* An update has named the id of an investor of another round: that
\* investor is still in its round and a new one was created in the updated
\* round, whose other investors were deleted.
C20_Witness ==
    /\ resp.op = "round_update" /\ resp.status = HTTP_200
    /\ resp.arg[2].investors # <<>>
    /\ LET pk == resp.arg[1]
           list == resp.arg[2].investors[1]
       IN  /\ Len(list) = 1 /\ list[1].id # NoId
           /\ \E i \in investors : i.id = list[1].id /\ i.round # pk
           /\ \E i \in investors : i.id # list[1].id /\ i.round = pk

(***************************************************************************)
(* SpecCurrent: two startup users create rounds in their campaigns and     *)
(* switch is_current on and off, one request at a time.                    *)
(***************************************************************************)
NextCurrent ==
    \/ \E u \in StartupUsers : my_campaign(u)
    \/ \E u \in StartupUsers, b \in BOOLEAN : RoundPerformCreate(u, b)
    \/ \E u \in StartupUsers, pk \in RoundIds, b \in BOOLEAN :
           RoundUpdate(u, pk, [is_current |-> b, investors |-> <<>>])
    \/ \E u \in StartupUsers, pk \in RoundIds : RoundDestroy(u, pk)

SpecCurrent == Init /\ [][NextCurrent]_vars

(***************************************************************************)
(* Claims about InvestmentRound.save (SpecCurrent).                        *)
(***************************************************************************)
\* The rounds of campaign cid that are marked current.
CurrentRounds(cid) == {r \in rounds : r.campaign = cid /\ r.is_current}

AtMostOneCurrent ==
    \A c \in campaigns : Cardinality(CurrentRounds(c.id)) <= 1

\* The row the request just answered has saved, if it saved one.
SavedRound ==
    IF resp'.op = "round_create" /\ resp'.status = HTTP_201
    THEN {r \in rounds' : r.id = nextId["round"]}
    ELSE IF resp'.op = "round_update" /\ resp'.status = HTTP_200
    THEN {r \in rounds' : r.id = resp'.arg[1]}
    ELSE {}

SaveClearsSiblings ==
    \A saved \in SavedRound :
        {o \in rounds' : o.id # saved.id}
            = {IF saved.is_current /\ o.campaign = saved.campaign
               THEN [o EXCEPT !.is_current = FALSE] ELSE o :
                   o \in {x \in rounds : x.id # saved.id}}

\* C21: after any sequence of round saves made one at a time every campaign
\* has at most one current round; a save with is_current set clears the flag
\* on the other rounds of the same campaign and on no round of another
\* campaign, and a save with is_current unset changes no other round.
C21_OneCurrentRound == [](AtMostOneCurrent) /\ [][SaveClearsSiblings]_vars

\* A round has just been saved as current in a campaign that has another
\* round, which is not current.
C21_Witness ==
    /\ resp.op = "round_update" /\ resp.status = HTTP_200
    /\ resp.arg[2].is_current
    /\ \E r \in rounds : \E o \in rounds :
           /\ r.id = resp.arg[1] /\ r.is_current
           /\ o.id # r.id /\ o.campaign = r.campaign /\ ~o.is_current

(***************************************************************************)
(* SpecByStartup: startup users get their startups, one of them chooses    *)
(* its incubators, and every user asks for the campaign of every startup   *)
(* id, before and after their own startup or incubator row exists.         *)
(***************************************************************************)
StartupIds == 1..(Cardinality(StartupUsers) + 1)

NextByStartup ==
    \/ \E u \in StartupUsers : StartupOnboardingGet(u)
    \/ \E u \in IncubatorUsers : IncubatorDataGet(u)
    \/ \E ids \in {<<>>, <<1>>} : associate("s1", ids)
    \/ \E u \in Users, sid \in StartupIds : by_startup(u, sid)

SpecByStartup == Init /\ [][NextByStartup]_vars

(***************************************************************************)
(* Claims about CampaignViewSet.by_startup (SpecByStartup).                *)
(***************************************************************************)
\* Startup sid is in the portfolio of incubator user u, or is the startup
\* of startup user u.
MayViewCampaign(u, sid) ==
    IF UserType(u) = INCUBATOR
    THEN \E i \in IncubatorsOfProfile(incubators, u) : sid \in PortfolioIds(i.id)
    ELSE \E s \in StartupsOfProfile(startups, u) : s.id = sid

\* C22: by_startup returns the campaign of startup_id to an incubator user
\* only if the startup is in their incubator's portfolio and to a startup
\* user only if it is their own startup; any other request is answered 403,
\* or 404 when the startup does not exist, and creates no campaign.
C22_ByStartupGuarded ==
    [][(resp'.op = "by_startup" /\ HasProfile(resp'.user))
        => LET u == resp'.user
               sid == resp'.arg
           IN  IF ~\E s \in startups : s.id = sid
               THEN resp'.status = HTTP_404 /\ resp'.out = {} /\ campaigns' = campaigns
               ELSE IF MayViewCampaign(u, sid)
               THEN /\ resp'.status = HTTP_200
                    /\ resp'.out = {c \in campaigns' : c.startup = sid}
               ELSE /\ resp'.status = HTTP_403 /\ resp'.out = {}
                    /\ campaigns' = campaigns]_vars

(***************************************************************************)
(* users/views.py, users/serializers/onboarding.py: the onboarding wizard  *)
(* served on several connections at once.  Each connection serves one      *)
(* request, one database statement at a time.  Inside the atomic block of  *)
(* create() a connection reads the committed rows and its own writes; the  *)
(* row locks of the database only delay a statement and are left out.      *)
(***************************************************************************)
\* The tables create() rewrites, in the order of its statements, and the
\* sequence that numbers the rows of each.
WizardTables == <<"evidences", "finputs", "pipeline">>
SequenceOf == [evidences |-> "evidence", finputs |-> "finput", pipeline |-> "pipeline"]

\* The database as the transaction of connection record t reads it.
Visible(t) ==
    [Database EXCEPT
        !.evidences = (@ \ t.deleted.evidences) \cup t.created.evidences,
        !.finputs = (@ \ t.deleted.finputs) \cup t.created.finputs,
        !.pipeline = (@ \ t.deleted.pipeline) \cup t.created.pipeline]

\* The connection has answered: its transaction, if any, is over.
Answered(t, status) ==
    [t EXCEPT !.pc = <<"done">>, !.status = status,
              !.deleted = IF status = HTTP_201 THEN @ ELSE NoWrites,
              !.created = IF status = HTTP_201 THEN @ ELSE NoWrites]

WizardResponse(t, status, validated, failed_at) ==
    Response("wizard", t.user, status, t.data,
             [validated |-> validated, failed_at |-> failed_at,
              fault |-> "none", startup |-> t.startup])

InFlight(q) == txns[q].pc \notin {<<"idle">>, <<"done">>}

\* OnboardingCompleteView.post up to serializer.save(): the startup is got
\* or created (committed at once), the payload validated and, when valid,
\* the atomic block of create() entered.
WizardEnter(p, u, data) ==
    /\ txns[p].pc = <<"idle">>
    /\ HasProfile(u) /\ UserType(u) = STARTUP
    /\ LET got == StartupGetOrCreate(Database, u)
           busy == {q \in Connections \ {p} : InFlight(q)}
           t == [Idle EXCEPT !.user = u, !.startup = got.row.id, !.data = data]
       IN  /\ startups' = got.db.startups
           /\ nextId' = got.db.nextId
           /\ IF ~WizardIsValid(data)
              THEN /\ txns' = [txns EXCEPT ![p] = Answered(t, HTTP_500)]
                   /\ resp' = WizardResponse(t, HTTP_500, FALSE, "validation")
              ELSE /\ txns' = [q \in Connections |->
                                  IF q = p
                                  THEN [t EXCEPT !.pc = <<"delete", 1>>,
                                                 !.overlapped = busy # {}]
                                  ELSE IF q \in busy
                                  THEN [txns[q] EXCEPT !.overlapped = TRUE]
                                  ELSE txns[q]]
                   /\ resp' = resp
    /\ UNCHANGED <<assoc, incubators, members, readyVars, finputs, pipeline,
                   fundrounds, challenges, campVars>>

\* STEP 1 of create(): Model.objects.filter(startup=startup).delete(), one
\* statement per table.
WizardDelete(p) ==
    /\ txns[p].pc[1] = "delete"
    /\ LET t == txns[p]
           k == t.pc[2]
           tbl == WizardTables[k]
           gone == {r \in Visible(t)[tbl] : r.startup = t.startup}
       IN  txns' = [txns EXCEPT
                       ![p].deleted[tbl] = @ \cup (gone \ t.created[tbl]),
                       ![p].created[tbl] = @ \ gone,
                       ![p].pc = IF k < Len(WizardTables)
                                 THEN <<"delete", k + 1>> ELSE <<"create", 1>>]
    /\ UNCHANGED <<userVars, readyVars, finputs, pipeline, fundrounds, challenges,
                   campVars, nextId, resp>>

\* The rows one loop of STEP 2 creates in table tbl, numbered from first.
WizardRows(tbl, sid, data, first) ==
    IF tbl = "evidences"
    THEN {[id |-> first + i - 1, startup |-> sid,
           type |-> data.evidences[i].type, level |-> data.evidences[i].level,
           status |-> PENDING, reviewer_notes |-> NullStr]
          : i \in DOMAIN data.evidences}
    ELSE IF tbl = "finputs"
    THEN {[id |-> first + i - 1, startup |-> sid,
           period_date |-> data.financial_data[i]]
          : i \in DOMAIN data.financial_data}
    ELSE {[id |-> first + i - 1, startup |-> sid,
           investor_name |-> data.investors[i], stage |-> CONTACTED,
           round |-> 0, ticket_size |-> <<>>]
          : i \in DOMAIN data.investors}

\* STEP 2 of create(): one loop of Model.objects.create(startup=startup, ...)
\* per table.  The sequences are not transactional: the ids are spent even
\* if the transaction rolls back.  FinancialInput is unique_together
\* (startup, period_date).
WizardInsert(p) ==
    /\ txns[p].pc[1] = "create"
    /\ LET t == txns[p]
           k == t.pc[2]
           tbl == WizardTables[k]
           rows == WizardRows(tbl, t.startup, t.data, nextId[SequenceOf[tbl]])
           unique ==
               tbl = "finputs"
               => /\ Len(t.data.financial_data) = Cardinality(Range(t.data.financial_data))
                  /\ \A f \in Visible(t).finputs :
                         ~(f.startup = t.startup
                           /\ f.period_date \in Range(t.data.financial_data))
       IN  /\ nextId[SequenceOf[tbl]] + Cardinality(rows) <= MaxId + 1
           /\ nextId' = [nextId EXCEPT ![SequenceOf[tbl]] = @ + Cardinality(rows)]
           /\ IF unique
              THEN /\ txns' = [txns EXCEPT
                                  ![p].created[tbl] = @ \cup rows,
                                  ![p].pc = IF k < Len(WizardTables)
                                            THEN <<"create", k + 1>> ELSE <<"save">>]
                   /\ resp' = resp
              ELSE /\ txns' = [txns EXCEPT ![p] = Answered(t, HTTP_500)]
                   /\ resp' = WizardResponse(t, HTTP_500, TRUE, "create")
    /\ UNCHANGED <<userVars, readyVars, finputs, pipeline, fundrounds, challenges,
                   campVars>>

\* STEP 3 of create() and the end of the atomic block: startup.save with
\* update_fields, the campaign and its financials, then commit; an exception
\* rolls the transaction back and the view answers 500.
WizardSave(p) ==
    /\ txns[p].pc = <<"save">>
    /\ LET t == txns[p]
           db4 == Visible(t)
           db5 == [db4 EXCEPT !.startups =
                      {IF s.id = t.startup
                       THEN [s EXCEPT !.company_name = t.data.company_name,
                                      !.industry = t.data.industry,
                                      !.onboarding_completed = TRUE]
                       ELSE s : s \in @}]
           camp == CampaignGetOrCreate(db5, t.startup)
           fin == FinancialsGetOrCreate(camp.db, camp.row.id)
           db6 == [fin.db EXCEPT !.cfins =
                      {IF f.id = fin.row.id
                       THEN [f EXCEPT !.financial_projections = t.data.financial_projections]
                       ELSE f : f \in @}]
           raised == IF ~UpdateFieldsOk(WizardUpdateFields, StartupFields)
                     THEN "startup"
                     ELSE IF ~camp.ok \/ ~fin.ok THEN "financials" ELSE "none"
       IN  IF raised = "none"
           THEN /\ PersistTables(db6)
                /\ txns' = [txns EXCEPT ![p] = Answered(t, HTTP_201)]
                /\ resp' = WizardResponse(t, HTTP_201, TRUE, "none")
           ELSE /\ PersistTables(Database)
                /\ txns' = [txns EXCEPT ![p] = Answered(t, HTTP_500)]
                /\ resp' = WizardResponse(t, HTTP_500, TRUE, raised)

(***************************************************************************)
(* SpecConcurrent: a startup user with or without earlier evidence sends   *)
(* the wizard twice, on two connections.                                   *)
(***************************************************************************)
\* Two valid payloads that differ in every record they carry.
OtherPayload ==
    [BasePayload EXCEPT !.current_trl = 2,
                        !.evidences = <<[type |-> TRL, level |-> 2]>>,
                        !.financial_data = <<"2024-02-29">>,
                        !.investors = <<"Seed fund">>]
ConcurrentPayloads == {BasePayload, OtherPayload}

NextConcurrent ==
    \/ StartupOnboardingGet("s1")
    \/ EvidenceCreate("s1", [type |-> TRL, level |-> 1], MaxSeed)
    \/ \E p \in Connections, data \in ConcurrentPayloads : WizardEnter(p, "s1", data)
    \/ \E p \in Connections : WizardDelete(p)
    \/ \E p \in Connections : WizardInsert(p)
    \/ \E p \in Connections : WizardSave(p)

SpecConcurrent == Init /\ [][NextConcurrent]_vars

(***************************************************************************)
(* Claims about concurrent wizard submissions (SpecConcurrent).            *)
(***************************************************************************)
\* The records a payload carries and the records a startup has, without the
\* primary keys.
SubmittedRecords(data) ==
    [evidences |-> {<<data.evidences[i].type, data.evidences[i].level>>
                       : i \in DOMAIN data.evidences},
     finputs |-> Range(data.financial_data),
     pipeline |-> Range(data.investors)]

RecordsOfStartup(sid) ==
    [evidences |-> {<<e.type, e.level>> : e \in {x \in evidences : x.startup = sid}},
     finputs |-> {f.period_date : f \in {x \in finputs : x.startup = sid}},
     pipeline |-> {i.investor_name : i \in {x \in pipeline : x.startup = sid}}]

\* Both connections have answered a submission for the same startup, and
\* the two transactions were open at the same time.
BothAnswered ==
    /\ \A p \in Connections : txns[p].pc = <<"done">> /\ txns[p].overlapped
    /\ \A p, q \in Connections : txns[p].startup = txns[q].startup

====
